---- MODULE Spec2Model ----
(***************************************************************************)
(* MICRO BOT bridge server (src/src/MICRO_BOT/bridge_server.py): the       *)
(* message ingestion, filtering and swarm-state aggregation pipeline, its  *)
(* fan-out to operators and the health monitor.                            *)
(*                                                                         *)
(* Time is the hub clock time.time(), counted in whole seconds: the events *)
(* of a run happen on second boundaries.                                    *)
(* The code between two awaits of a coroutine runs without interruption    *)
(* (single-threaded asyncio), so each action is the code of one handler    *)
(* from one suspension point to the next, and all the time.time() calls of *)
(* such a block read the same tick.                                        *)
(***************************************************************************)
EXTENDS Integers, Sequences, FiniteSets, TLC

\* ---------------------------------------------------------------- universe
Bots == {"A", "B"}                 \* bot ids carried by frames
Conns == {"c1", "c2"}              \* websockets accepted on the bot port
Ops == {"o1", "o2"}                \* websockets accepted on the operator port
NoVal == "none"                    \* Python None / missing key (strings)
NoNum == 0 - 1                     \* missing numeric key

\* Websockets are fresh objects: the model names them in the order in which
\* the hub accepts them.
Earlier(x, y) == <<x, y>> \in {<<"c1", "c2">>, <<"o1", "o2">>}

\* ---------------------------------------------------------------- bounds
MaxTime == 2          \* one-second steps of the clock in one run
MaxFrames == 2        \* well-formed bot frames handled in one run
MaxOpCmds == 2        \* operator commands handled in one run
MaxWaits == 2         \* long quiet periods in one run
MaxTaskFrames == 4    \* task-assignment frames in one run
MaxElectionFrames == 4 \* discovery and election frames in one election run

\* ------------------------------------------------------- program constants
RateWindow == 1                \* 1.0 s
DefaultRateLimit == 10
DefaultDuplicateWindow == 2    \* 2.0 s
DefaultPriorityThreshold == 2
BusyThreshold == 5
HistoryCap == 100
SwarmLogCap == 500
FormationCap == 50
ZoneCap == 20
MonitorTimeout == 30           \* 30.0 s
SweepInterval == 5             \* 5 s
MSG_DISCOVERY == 1             \* 0x01
MSG_TASK_ASSIGNMENT == 32      \* 0x20
MSG_FORMATION_REQUEST == 34    \* 0x22
MSG_LEADER_ELECTION == 48      \* 0x30
MSG_AREA_CLAIM == 50           \* 0x32
MSG_GENOME_SHARE == 64         \* 0x40
MSG_UNKNOWN == 119             \* 0x77, a code no branch of the dispatch names
StabilityWindow == 60          \* 60 s
StabilityChanges == 10         \* changes that bring the stability to 0
CoverageWindow == 300          \* 300 s
CoverageZones == 5             \* zones that bring the efficiency to 1
ActivityWindow == 30           \* 30 s
ActivityMessages == 20         \* recent messages that bring the activity to 1
CoherenceTasks == 5            \* active tasks that bring the task score to 1

\* ---------------------------------------------------------------- helpers
Last(s) == s[Len(s)]

\* a full deque that gives up its newest entry for the new one
AppendCap_EvictsNewest(s, x, cap) ==
  IF Len(s) >= cap THEN Append(SubSeq(s, 1, Len(s) - 1), x) ELSE Append(s, x)

\* deque(maxlen=cap).append(x): the oldest entry leaves when the deque is full
AppendCap(s, x, cap) ==
  IF Len(s) >= cap THEN Append(SubSeq(s, 2, Len(s)), x) ELSE Append(s, x)

\* [x for x in s if Keep(x)]
RECURSIVE SelectIdx(_, _, _)
SelectIdx(s, keep, i) ==
  IF i > Len(s) THEN << >>
  ELSE IF i \in keep THEN << s[i] >> \o SelectIdx(s, keep, i + 1)
       ELSE SelectIdx(s, keep, i + 1)

\* ------------------------------------------------------------ SignalFilter
\* self.filter_rules of a new SignalFilter
DefaultRules ==
  [rate_limit |-> DefaultRateLimit,
   duplicate_window |-> DefaultDuplicateWindow,
   priority_threshold |-> DefaultPriorityThreshold]

\* message.data without the key swarm_analysis
NoAnalysis == [analysis |-> NoVal]

\* a BotMessage that takes its timestamp from the frame
BotMessage_SenderTime(frame, t) ==
  [message_type |-> frame.type,
   timestamp |-> frame.timestamp,
   data |-> [frame |-> frame, processed_at |-> NoNum, swarm_analysis |-> NoAnalysis],
   filtered |-> FALSE,
   priority |-> frame.priority]

\* BotMessage(bot_id, message_type, timestamp=time.time(), data=data, priority)
\* data is the parsed frame, to which process_message and the connection
\* handler later add the keys processed_at, micro_bot_id and swarm_analysis.
BotMessage(frame, t) ==
  [message_type |-> frame.type,
   timestamp |-> t,
   data |-> [frame |-> frame, processed_at |-> NoNum, swarm_analysis |-> NoAnalysis],
   filtered |-> FALSE,
   priority |-> frame.priority]

\* a rate count that leaves out the entries already marked filtered
RecentMessages_KeptOnly(bot_history, current_time) ==
  {i \in 1..Len(bot_history) : /\ current_time - bot_history[i].timestamp < RateWindow
                               /\ ~bot_history[i].filtered}

\* recent_messages = [msg for msg in bot_history if current_time - msg.timestamp < 1.0]
RecentMessages(bot_history, current_time) ==
  {i \in 1..Len(bot_history) : current_time - bot_history[i].timestamp < RateWindow}

\* a duplicate loop with the window comparison turned around
DuplicateFound_WindowReversed(bot_history, message, current_time, rules) ==
  \E i \in 1..Len(bot_history) :
     /\ current_time - bot_history[i].timestamp > rules.duplicate_window
     /\ bot_history[i].message_type = message.message_type
     /\ bot_history[i].data = message.data

\* the duplicate loop of should_filter: some entry of the history, inside the
\* window, of the same message_type and with a data dict equal to the message's
DuplicateFound(bot_history, message, current_time, rules) ==
  \E i \in 1..Len(bot_history) :
     /\ current_time - bot_history[i].timestamp < rules.duplicate_window
     /\ bot_history[i].message_type = message.message_type
     /\ bot_history[i].data = message.data

\* a should_filter in which the rate limit spares the messages whose priority
\* reaches the threshold
FilterVerdict_PrioritySparesRate(bot_history, message, current_time, rules) ==
  LET recent == Cardinality(RecentMessages(bot_history, current_time))
  IN IF recent >= rules.rate_limit /\ message.priority < rules.priority_threshold
     THEN "rate"
     ELSE IF DuplicateFound(bot_history, message, current_time, rules) THEN "duplicate"
     ELSE IF message.priority < rules.priority_threshold /\ recent > BusyThreshold
          THEN "priority"
     ELSE "keep"

\* a should_filter whose priority gate closes at the busy threshold already
FilterVerdict_BusyAtThreshold(bot_history, message, current_time, rules) ==
  LET recent == Cardinality(RecentMessages(bot_history, current_time))
  IN IF recent >= rules.rate_limit THEN "rate"
     ELSE IF DuplicateFound(bot_history, message, current_time, rules) THEN "duplicate"
     ELSE IF message.priority < rules.priority_threshold /\ recent >= BusyThreshold
          THEN "priority"
     ELSE "keep"

\* should_filter, returning which return statement is taken:
\* "rate", "duplicate", "priority" (return True) or "keep" (return False)
FilterVerdict(bot_history, message, current_time, rules) ==
  LET recent == Cardinality(RecentMessages(bot_history, current_time))
  IN IF recent >= rules.rate_limit THEN "rate"
     ELSE IF DuplicateFound(bot_history, message, current_time, rules) THEN "duplicate"
     ELSE IF message.priority < rules.priority_threshold /\ recent > BusyThreshold
          THEN "priority"
     ELSE "keep"

should_filter(bot_history, message, current_time, rules) ==
  FilterVerdict(bot_history, message, current_time, rules) # "keep"

\* process_message: the message joins the history first, the decision is taken
\* against that history, then the metadata keys are added to message.data.
\* The history holds the same object, so its last entry shows the final
\* message.  Result: the new history of the bot.
process_message(bot_history, message, current_time, rules) ==
  LET appended == AppendCap(bot_history, message, HistoryCap)
      verdict == should_filter(appended, message, current_time, rules)
      final == [message EXCEPT !.filtered = verdict,
                               !.data.processed_at = current_time]
  IN [appended EXCEPT ![Len(appended)] = final]

\* ------------------------------------------------ SwarmIntelligenceMonitor
\* payload.get(key, default)
Get(value, default) == IF value = NoNum THEN default ELSE value

\* SwarmIntelligenceMonitor.__init__ with SwarmState.__post_init__
NewSwarmMonitor ==
  [leader_bot |-> NoVal,
   leadership_election_active |-> FALSE,
   active_formations |-> << >>,      \* dict bot id -> formation
   active_tasks |-> << >>,
   exploration_zones |-> << >>,
   swarm_messages |-> << >>,
   peer_relationships |-> << >>,     \* dict bot id -> relationship
   genome_sharing |-> 0,             \* behavior_patterns['genome_sharing']
   task_assignments |-> << >>,       \* dict task id -> assignment
   formation_history |-> << >>]

\* the scan of _get_leader_fitness over reversed(self.swarm_messages)
RECURSIVE ScanBack(_, _, _)
ScanBack(swarm_messages, leader, i) ==
  IF i = 0 THEN 0
  ELSE IF swarm_messages[i].bot_id = leader /\ swarm_messages[i].type = MSG_DISCOVERY
       THEN Get(swarm_messages[i].payload.fitnessScore, 0)
       ELSE ScanBack(swarm_messages, leader, i - 1)

_get_leader_fitness(sm) ==
  IF sm.leader_bot = NoVal THEN 0
  ELSE ScanBack(sm.swarm_messages, sm.leader_bot, Len(sm.swarm_messages))

\* Every handler gives [sm |-> the monitor after it, raised |-> whether it
\* ended in an exception, analysis |-> the dict it returns]; of the dict the
\* model keeps the key analysis and the computed scores.
Returned(sm, analysis) == [sm |-> sm, raised |-> FALSE, analysis |-> analysis]
Raised(sm) == [sm |-> sm, raised |-> TRUE, analysis |-> NoAnalysis]

_handle_discovery(sm, bot_id, payload, t) ==
  Returned([sm EXCEPT !.peer_relationships =
     IF bot_id \notin DOMAIN sm.peer_relationships
     THEN sm.peer_relationships @@
            (bot_id :> [first_seen |-> t, last_discovery |-> t, discovery_count |-> 1])
     ELSE [sm.peer_relationships EXCEPT
             ![bot_id].last_discovery = t,
             ![bot_id].discovery_count = @ + 1]],
     [analysis |-> "discovery_processed"])

\* a leader test that lets a challenger of equal fitness win
ChallengerWins_OnTie(sm, fitness) ==
  sm.leader_bot = NoVal \/ fitness >= _get_leader_fitness(sm)

\* the test that decides whether the sender of an election message that
\* carries generation and fitnessScore replaces the leader
ChallengerWins(sm, fitness) ==
  sm.leader_bot = NoVal \/ fitness > _get_leader_fitness(sm)

_handle_leadership_election(sm, bot_id, payload, t) ==
  LET active == [sm EXCEPT !.leadership_election_active = TRUE]
  IN Returned(
       IF /\ payload.generation # NoNum
          /\ payload.fitnessScore # NoNum
          /\ ChallengerWins(active, payload.fitnessScore)
       THEN [active EXCEPT !.leader_bot = bot_id]
       ELSE active,
       [analysis |-> "leadership_election"])

\* a task list that appends without removing the entry of the same id
ReplaceTask_AppendOnly(active_tasks, task_summary) == Append(active_tasks, task_summary)

\* a task list that overwrites the entry of the same id where it stands
ReplaceTask_InPlace(active_tasks, task_summary) ==
  IF \E i \in 1..Len(active_tasks) : active_tasks[i].id = task_summary.id
  THEN [i \in 1..Len(active_tasks) |->
          IF active_tasks[i].id = task_summary.id THEN task_summary
          ELSE active_tasks[i]]
  ELSE Append(active_tasks, task_summary)

\* [t for t in active_tasks if t.get('id') != task_id] + [task_summary]
ReplaceTask(active_tasks, task_summary) ==
  Append(SelectIdx(active_tasks,
                   {i \in 1..Len(active_tasks) : active_tasks[i].id # task_summary.id}, 1),
         task_summary)

\* payload.get(key, default) for a key that the payload has or has not
Field(payload, key, default) ==
  IF key \in DOMAIN payload THEN payload[key] ELSE default

\* a record of assignments that the latest message for a task id overwrites
RecordAssignment_LastWriter(task_assignments, task_id, assignment) ==
  IF task_id \in DOMAIN task_assignments
  THEN [task_assignments EXCEPT ![task_id] = assignment]
  ELSE task_assignments @@ (task_id :> assignment)

\* if task_id not in self.task_assignments: self.task_assignments[task_id] = {...}
RecordAssignment(task_assignments, task_id, assignment) ==
  IF task_id \in DOMAIN task_assignments THEN task_assignments
  ELSE task_assignments @@ (task_id :> assignment)

_handle_task_assignment(sm, bot_id, payload, t) ==
  LET task_id == Get(payload.taskId, 0)
      assignment == [assigned_by |-> bot_id,
                     task_type |-> Field(payload, "taskType", 0),
                     priority |-> Get(payload.taskPriority, 1),
                     created_time |-> t,
                     status |-> "assigned",
                     target_bot |-> Field(payload, "targetBot", "unknown")]
      task_summary == [id |-> task_id,
                       type |-> Field(payload, "taskType", 0),
                       priority |-> Get(payload.taskPriority, 1),
                       assigned_by |-> bot_id,
                       status |-> "active"]
  IN Returned([sm EXCEPT
       !.task_assignments = RecordAssignment(@, task_id, assignment),
       !.active_tasks = ReplaceTask(@, task_summary)],
       [analysis |-> "task_assignment"])

\* a stability score without the test on the length of the history
_calculate_formation_stability_NoGuard(formation_history, t) ==
  LET recent_changes ==
        Len(SelectIdx(formation_history,
                      {i \in 1..Len(formation_history) :
                         t - formation_history[i].timestamp < StabilityWindow}, 1))
  IN IF StabilityChanges - recent_changes > 0
     THEN StabilityChanges - recent_changes ELSE 0

\* _calculate_formation_stability, in tenths:
\* max(0.0, 1.0 - recent_changes / 10.0), or 1.0 with fewer than 2 entries
_calculate_formation_stability(formation_history, t) ==
  IF Len(formation_history) < 2 THEN StabilityChanges
  ELSE LET recent_changes ==
             Len(SelectIdx(formation_history,
                           {i \in 1..Len(formation_history) :
                              t - formation_history[i].timestamp < StabilityWindow}, 1))
       IN IF StabilityChanges - recent_changes > 0
          THEN StabilityChanges - recent_changes ELSE 0

_handle_formation_request(sm, bot_id, payload, t) ==
  LET after == [sm EXCEPT
        !.formation_history =
           AppendCap(@, [timestamp |-> t, requested_by |-> bot_id], FormationCap),
        !.active_formations =
           IF bot_id \in DOMAIN @ THEN [@ EXCEPT ![bot_id] = [updated |-> t]]
           ELSE @ @@ (bot_id :> [updated |-> t])]
  IN Returned(after,
              [analysis |-> "formation_change",
               formation_stability |->
                  _calculate_formation_stability(after.formation_history, t)])

\* exploration_zones[-20:] when the list is longer than 20
KeepLastZones(zones) ==
  IF Len(zones) > ZoneCap THEN SubSeq(zones, Len(zones) - ZoneCap + 1, Len(zones))
  ELSE zones

\* _calculate_coverage_efficiency where it returns, in fifths:
\* min(1.0, len(recent_zones) / 5.0), or 0.0 with no zone
_calculate_coverage_efficiency(zones, t) ==
  LET recent_zones ==
        SelectIdx(zones, {i \in 1..Len(zones) : t - zones[i].time < CoverageWindow}, 1)
  IN IF Len(recent_zones) < CoverageZones THEN Len(recent_zones) ELSE CoverageZones

\* _calculate_coverage_efficiency reads z['claimed_time'] of every zone: a zone
\* stored by assign_exploration_zone has the key assigned_time instead, and the
\* read raises KeyError
CoverageRaises(zones) ==
  \E i \in 1..Len(zones) : ~zones[i].has_claimed_time

_handle_area_claim(sm, bot_id, payload, t) ==
  LET area_info == [bot_id |-> bot_id, has_claimed_time |-> TRUE, time |-> t]
      zones == KeepLastZones(Append(sm.exploration_zones, area_info))
      after == [sm EXCEPT !.exploration_zones = zones]
  IN IF CoverageRaises(zones) THEN Raised(after)
     ELSE Returned(after, [analysis |-> "area_claim", total_zones |-> Len(zones),
                           coverage_efficiency |-> _calculate_coverage_efficiency(zones, t)])

_handle_genome_share(sm, bot_id, payload, t) ==
  Returned([sm EXCEPT !.genome_sharing = @ + 1], [analysis |-> "genome_sharing"])

\* _calculate_swarm_coherence, in sixtieths: 0.0 without peer relationships,
\* else (activity_score + formation_score + task_score) / 3.0 with the
\* activity in twentieths, the formation stability in tenths and the tasks
\* in fifths
_calculate_swarm_coherence(sm, t) ==
  IF DOMAIN sm.peer_relationships = {} THEN 0
  ELSE LET recent_activity ==
             Len(SelectIdx(sm.swarm_messages,
                           {i \in 1..Len(sm.swarm_messages) :
                              t - sm.swarm_messages[i].timestamp < ActivityWindow}, 1))
           activity_score == IF recent_activity < ActivityMessages
                             THEN recent_activity ELSE ActivityMessages
           formation_score == _calculate_formation_stability(sm.formation_history, t)
           task_score == IF Len(sm.active_tasks) < CoherenceTasks
                         THEN Len(sm.active_tasks) ELSE CoherenceTasks
       IN activity_score + 2 * formation_score + 4 * task_score

\* the dict _create_analysis_response returns
_create_analysis_response(msg_type, bot_id) ==
  [analysis |-> "unknown_message", message_type |-> msg_type, bot_id |-> bot_id]

\* process_swarm_message: log the message, then dispatch on messageType
process_swarm_message(sm, bot_id, frame, t) ==
  LET msg_type == frame.header
      swarm_msg == [bot_id |-> bot_id, timestamp |-> t, type |-> msg_type,
                    payload |-> frame.payload]
      logged == [sm EXCEPT !.swarm_messages = AppendCap(@, swarm_msg, SwarmLogCap)]
  IN CASE msg_type = MSG_DISCOVERY -> _handle_discovery(logged, bot_id, frame.payload, t)
       [] msg_type = MSG_LEADER_ELECTION ->
            _handle_leadership_election(logged, bot_id, frame.payload, t)
       [] msg_type = MSG_TASK_ASSIGNMENT ->
            _handle_task_assignment(logged, bot_id, frame.payload, t)
       [] msg_type = MSG_FORMATION_REQUEST ->
            _handle_formation_request(logged, bot_id, frame.payload, t)
       [] msg_type = MSG_AREA_CLAIM -> _handle_area_claim(logged, bot_id, frame.payload, t)
       [] msg_type = MSG_GENOME_SHARE -> _handle_genome_share(logged, bot_id, frame.payload, t)
       [] OTHER -> Returned(logged, _create_analysis_response(msg_type, bot_id))

\* ------------------------------------------------------------------ frames
Kinds == {"status", "obstacle"}
Priorities == {1, 2}
Bodies == {1}
NoPayload == [fitnessScore |-> NoNum, generation |-> NoNum,
              taskId |-> NoNum, taskPriority |-> NoNum]

\* a frame without a header object: standard telemetry
StandardFrames ==
  [bot_id : Bots, type : Kinds, priority : Priorities, body : Bodies,
   header : {NoNum}, payload : {NoPayload}]

\* the payloads the swarm frames of the model carry, per messageType
SwarmPayloads(msg_type) ==
  CASE msg_type = MSG_DISCOVERY ->
         [fitnessScore : {NoNum, 5, 8}, generation : {NoNum},
          taskId : {NoNum}, taskPriority : {NoNum}]
    [] msg_type = MSG_LEADER_ELECTION ->
         [fitnessScore : {5, 8}, generation : {NoNum, 1},
          taskId : {NoNum}, taskPriority : {NoNum}]
    [] msg_type = MSG_TASK_ASSIGNMENT ->
         [fitnessScore : {NoNum}, generation : {NoNum},
          taskId : {NoNum, 1}, taskPriority : {NoNum, 3}]
    [] OTHER -> {NoPayload}

MsgTypes ==
  {MSG_DISCOVERY, MSG_LEADER_ELECTION, MSG_TASK_ASSIGNMENT, MSG_FORMATION_REQUEST,
   MSG_AREA_CLAIM, MSG_GENOME_SHARE, MSG_UNKNOWN}

\* a frame with header.messageType: a swarm-protocol frame
SwarmFrames ==
  UNION {[bot_id : Bots, type : {"signal"}, priority : {2}, body : {1},
          header : {mt}, payload : SwarmPayloads(mt)] : mt \in MsgTypes}

\* 'header' in data and 'messageType' in data['header']
IsSwarmFrame(frame) == frame.header # NoNum

\* ------------------------------------------------------------------- state
VARIABLES
  now,             \* time.time(), in seconds
  signal_filter,   \* [message_history: dict bot id -> deque, filter_rules]
  swarm_monitor,   \* the SwarmIntelligenceMonitor
  bot_clients,     \* dict bot id -> websocket
  bot_status,      \* dict bot id -> BotStatus
  status_keys,     \* the keys of bot_status in insertion order (dict order)
  pc_clients,      \* set of operator websockets
  stats,           \* self.stats
  conn,            \* per bot websocket: its handle_bot_connection task
  op,              \* per operator websocket: its handle_pc_connection task
  monitor,         \* the status_monitor task
  pc_received,     \* per operator websocket: the notifications delivered to it
                   \* and the type of the last reply to one of its commands
                   \* (about: the command an error reply names)
  audit,           \* observation: the return statement the last should_filter
                   \* took; the sweeps started; per bot, the sweeps that set it
                   \* offline, the last of them, and the calls of broadcast_to_pc
                   \* with its bot_offline; per bot websocket, the commands
                   \* delivered to it; the operator frames whose handling
                   \* ended in the except clause of handle_pc_connection
  budget,          \* events of the run so far, for the bounds
  emergency        \* the call of broadcast_swarm_emergency: not made yet
                   \* ("idle"), suspended in a send to a bot ("bots") or to an
                   \* operator ("ops"), returned ("done") or left by an
                   \* exception ("raised"); the websocket it is sending on
  ,
  election         \* the call of trigger_swarm_leader_election in progress:
                   \* none ("idle") or one suspended in a send to a bot
                   \* ("bots"), for the command of operator op, on websocket ws

vars == << now, signal_filter, swarm_monitor, bot_clients, bot_status, status_keys,
           pc_clients, stats, conn, op, monitor, pc_received, audit, budget,
           emergency, election >>

\* no call of trigger_swarm_leader_election in progress
NoElection == [state |-> "idle", op |-> NoVal, ws |-> NoVal,
               fan |-> [size |-> 0, initial |-> {}, visited |-> {},
                        disconnected |-> {}, target |-> NoVal]]

\* no fan-out in progress
NoFan == [size |-> 0, initial |-> {}, visited |-> {}, disconnected |-> {},
          target |-> NoVal]

Init ==
  /\ now = 0
  /\ signal_filter = [message_history |-> [b \in Bots |-> << >>],
                      filter_rules |-> DefaultRules]
  /\ swarm_monitor = NewSwarmMonitor
  /\ bot_clients = << >>
  /\ bot_status = << >>
  /\ status_keys = << >>
  /\ pc_clients = {}
  /\ stats = [messages_processed |-> 0, messages_filtered |-> 0,
              messages_forwarded |-> 0, swarm_messages_analyzed |-> 0]
  /\ conn = [c \in Conns |-> [state |-> "new", alive |-> TRUE, bot_id |-> NoVal,
                              fan |-> NoFan]]
  /\ op = [o \in Ops |-> "new"]
  /\ monitor = [state |-> "sleep", wake |-> 0, current_time |-> 0, idx |-> 0,
                size |-> 0, fan |-> NoFan]
  /\ pc_received = [o \in Ops |-> [bot_offline |-> [b \in Bots |-> 0], reply |-> NoVal,
                                     about |-> NoVal]]
  /\ audit = [verdict |-> NoVal, sweeps |-> 0, flip_sweep |-> [b \in Bots |-> 0],
              flips |-> [b \in Bots |-> 0], broadcasts |-> [b \in Bots |-> 0],
              delivered |-> [c \in Conns |-> 0], pc_errors |-> 0,
              trigger_log |-> 0]
  /\ budget = [frames |-> 0, cmds |-> 0, ticks |-> 0, waits |-> 0]
  /\ emergency = [state |-> "idle", ws |-> NoVal, fan |-> NoFan]
  /\ election = NoElection

\* dict[key] = value
Put(dict, key, value) ==
  IF key \in DOMAIN dict THEN [dict EXCEPT ![key] = value] ELSE dict @@ (key :> value)

\* del dict[key]
Del(dict, key) == [k \in DOMAIN dict \ {key} |-> dict[k]]

\* ----------------------------------------------------------------- fan-out
\* `for pc_client in self.pc_clients: await pc_client.send(...)` of forward_to_pc
\* and broadcast_to_pc.  The loop walks the live set, not a copy.  A fan record
\* is the loop suspended in the send to `target`: size is the size of the set
\* when the loop began, initial its members then, visited the clients already
\* sent to, disconnected the local set of failed clients.
FanBegin(pool, target) ==
  [size |-> Cardinality(pool), initial |-> pool, visited |-> {},
   disconnected |-> {}, target |-> target]

\* whether the send the loop is suspended in succeeds: the peer is still there
SendSucceeds(target) == op[target] = "open"

\* The loop resumes after the send to fan.target (sent tells whether it
\* succeeded) and asks the set iterator for the next client.  The iterator
\* raises RuntimeError when the set changed size since the loop began.  With
\* the size unchanged, every member of the starting set that is still in the
\* set and was not visited will be visited; a client that joined meanwhile sits
\* before or after the iterator's position, so it is visited or not.
FanOutcomes(fan, pool, sent) ==
  LET after == [fan EXCEPT !.visited = @ \cup {fan.target},
                           !.disconnected = IF sent THEN @ ELSE @ \cup {fan.target},
                           !.target = NoVal]
  IN IF Cardinality(pool) # fan.size
     THEN {[status |-> "error", fan |-> after]}
     ELSE {[status |-> "next", fan |-> [after EXCEPT !.target = c]] :
              c \in pool \ after.visited}
          \cup (IF (pool \cap fan.initial) \ after.visited = {}
                THEN {[status |-> "done", fan |-> after]} ELSE {})

\* ------------------------------------------------- handle_bot_connection
NewBotStatus(t) ==
  [last_seen |-> t, generation |-> 0, fitness_score |-> 0, is_online |-> TRUE,
   message_count |-> 0, error_count |-> 0]

\* a sender that is counted twice
CountError_Twice(status, bot_id) ==
  IF bot_id # NoVal THEN [status EXCEPT ![bot_id].error_count = @ + 2] ELSE status

\* `if bot_id: self.bot_status[bot_id].error_count += 1` of the except clauses
CountError(status, bot_id) ==
  IF bot_id # NoVal THEN [status EXCEPT ![bot_id].error_count = @ + 1] ELSE status

\* a handler that leaves its receive loop after the except clause
Recovered_LoopEnds(handler) == [handler EXCEPT !.state = "closed", !.fan = NoFan]

\* the handler of a bot websocket after an except clause inside the receive
\* loop: back at `async for message in websocket`
Recovered(handler) == [handler EXCEPT !.state = "recv", !.fan = NoFan]

\* a bot opens a websocket: the handler starts and waits for the first frame
BotConnect(c) ==
  /\ conn[c].state = "new"
  /\ \A d \in Conns : Earlier(d, c) => conn[d].state # "new"
  /\ conn' = [conn EXCEPT ![c].state = "recv"]
  /\ UNCHANGED << election, emergency, now, signal_filter, swarm_monitor, bot_clients, bot_status,
                  status_keys, pc_clients, stats, op, monitor, pc_received,
                  audit, budget >>

\* a receive loop that hands a swarm frame to the monitor only when the filter
\* kept it
BotFrame_AnalysesKept(c, frame) ==
  /\ conn[c].state = "recv" /\ conn[c].alive
  /\ conn[c].bot_id = NoVal \/ frame.bot_id = conn[c].bot_id
  /\ LET first == conn[c].bot_id = NoVal
         bot_id == IF first THEN frame.bot_id ELSE conn[c].bot_id
         \* registration, on the first frame of the connection
         clients1 == IF first THEN Put(bot_clients, bot_id, c) ELSE bot_clients
         status1 == IF first THEN Put(bot_status, bot_id, NewBotStatus(now))
                    ELSE bot_status
         keys1 == IF first /\ bot_id \notin DOMAIN bot_status
                  THEN Append(status_keys, bot_id) ELSE status_keys
         \* filtering
         history1 == process_message(signal_filter.message_history[bot_id],
                                     BotMessage(frame, now), now,
                                     signal_filter.filter_rules)
         filtered == Last(history1).filtered
         verdict == FilterVerdict(AppendCap(signal_filter.message_history[bot_id],
                                            BotMessage(frame, now), HistoryCap),
                                  BotMessage(frame, now), now,
                                  signal_filter.filter_rules)
         \* swarm analysis
         swarm == IF IsSwarmFrame(frame) /\ ~filtered
                  THEN process_swarm_message(swarm_monitor, bot_id, frame, now)
                  ELSE Returned(swarm_monitor, NoAnalysis)
         history2 == IF IsSwarmFrame(frame) /\ ~swarm.raised
                     THEN [history1 EXCEPT
                             ![Len(history1)].data.swarm_analysis = swarm.analysis]
                     ELSE history1
         stats1 == [stats EXCEPT
                      !.swarm_messages_analyzed = IF IsSwarmFrame(frame) THEN @ + 1 ELSE @,
                      !.messages_processed = @ + 1]
         status2 == [status1 EXCEPT ![bot_id].message_count = @ + 1,
                                    ![bot_id].last_seen = now]
     IN /\ bot_clients' = clients1
        /\ status_keys' = keys1
        /\ swarm_monitor' = swarm.sm
        /\ signal_filter' = [signal_filter EXCEPT !.message_history[bot_id] = history2]
        /\ budget' = [budget EXCEPT !.frames = @ + 1]
        /\ audit' = [audit EXCEPT !.verdict = verdict]
        /\ IF swarm.raised
           THEN \* except Exception: error_count += 1
                /\ bot_status' = CountError(status1, bot_id)
                /\ stats' = stats
                /\ conn' = [conn EXCEPT ![c] = Recovered([@ EXCEPT !.bot_id = bot_id])]
           ELSE IF filtered
           THEN /\ bot_status' = status2
                /\ stats' = [stats1 EXCEPT !.messages_filtered = @ + 1]
                /\ conn' = [conn EXCEPT ![c].bot_id = bot_id]
           ELSE IF pc_clients = {}
           THEN \* forward_to_pc returns at once
                /\ bot_status' = status2
                /\ stats' = [stats1 EXCEPT !.messages_forwarded = @ + 1]
                /\ conn' = [conn EXCEPT ![c].bot_id = bot_id]
           ELSE /\ bot_status' = status2
                /\ stats' = stats1
                /\ \E target \in pc_clients :
                     conn' = [conn EXCEPT ![c].bot_id = bot_id,
                                          ![c].state = "forwarding",
                                          ![c].fan = FanBegin(pc_clients, target)]
  /\ UNCHANGED << election, emergency, now, pc_clients, op, monitor, pc_received >>

\* One well-formed frame arrives on websocket c: the body of the receive loop
\* up to `continue`, to the end of the iteration, to the except clause, or to
\* the first send of forward_to_pc.
BotFrame(c, frame) ==
  /\ conn[c].state = "recv" /\ conn[c].alive
  /\ conn[c].bot_id = NoVal \/ frame.bot_id = conn[c].bot_id
  /\ LET first == conn[c].bot_id = NoVal
         bot_id == IF first THEN frame.bot_id ELSE conn[c].bot_id
         \* registration, on the first frame of the connection
         clients1 == IF first THEN Put(bot_clients, bot_id, c) ELSE bot_clients
         status1 == IF first THEN Put(bot_status, bot_id, NewBotStatus(now))
                    ELSE bot_status
         keys1 == IF first /\ bot_id \notin DOMAIN bot_status
                  THEN Append(status_keys, bot_id) ELSE status_keys
         \* filtering
         history1 == process_message(signal_filter.message_history[bot_id],
                                     BotMessage(frame, now), now,
                                     signal_filter.filter_rules)
         filtered == Last(history1).filtered
         verdict == FilterVerdict(AppendCap(signal_filter.message_history[bot_id],
                                            BotMessage(frame, now), HistoryCap),
                                  BotMessage(frame, now), now,
                                  signal_filter.filter_rules)
         \* swarm analysis
         swarm == IF IsSwarmFrame(frame)
                  THEN process_swarm_message(swarm_monitor, bot_id, frame, now)
                  ELSE Returned(swarm_monitor, NoAnalysis)
         history2 == IF IsSwarmFrame(frame) /\ ~swarm.raised
                     THEN [history1 EXCEPT
                             ![Len(history1)].data.swarm_analysis = swarm.analysis]
                     ELSE history1
         stats1 == [stats EXCEPT
                      !.swarm_messages_analyzed = IF IsSwarmFrame(frame) THEN @ + 1 ELSE @,
                      !.messages_processed = @ + 1]
         status2 == [status1 EXCEPT ![bot_id].message_count = @ + 1,
                                    ![bot_id].last_seen = now]
     IN /\ bot_clients' = clients1
        /\ status_keys' = keys1
        /\ swarm_monitor' = swarm.sm
        /\ signal_filter' = [signal_filter EXCEPT !.message_history[bot_id] = history2]
        /\ budget' = [budget EXCEPT !.frames = @ + 1]
        /\ audit' = [audit EXCEPT !.verdict = verdict]
        /\ IF swarm.raised
           THEN \* except Exception: error_count += 1
                /\ bot_status' = CountError(status1, bot_id)
                /\ stats' = stats
                /\ conn' = [conn EXCEPT ![c] = Recovered([@ EXCEPT !.bot_id = bot_id])]
           ELSE IF filtered
           THEN /\ bot_status' = status2
                /\ stats' = [stats1 EXCEPT !.messages_filtered = @ + 1]
                /\ conn' = [conn EXCEPT ![c].bot_id = bot_id]
           ELSE IF pc_clients = {}
           THEN \* forward_to_pc returns at once
                /\ bot_status' = status2
                /\ stats' = [stats1 EXCEPT !.messages_forwarded = @ + 1]
                /\ conn' = [conn EXCEPT ![c].bot_id = bot_id]
           ELSE /\ bot_status' = status2
                /\ stats' = stats1
                /\ \E target \in pc_clients :
                     conn' = [conn EXCEPT ![c].bot_id = bot_id,
                                          ![c].state = "forwarding",
                                          ![c].fan = FanBegin(pc_clients, target)]
  /\ UNCHANGED << election, emergency, now, pc_clients, op, monitor, pc_received >>

\* a forward_to_pc whose completion is not counted
ForwardResume_Uncounted(c) ==
  /\ conn[c].state = "forwarding"
  /\ LET fan == conn[c].fan
         sent == SendSucceeds(fan.target)
     IN /\ \E out \in FanOutcomes(fan, pc_clients, sent) :
             CASE out.status = "next" ->
                    /\ conn' = [conn EXCEPT ![c].fan = out.fan]
                    /\ UNCHANGED << pc_clients, stats, bot_status >>
               [] out.status = "done" ->
                    \* self.pc_clients -= disconnected
                    /\ pc_clients' = pc_clients \ out.fan.disconnected
                    /\ stats' = stats
                    /\ conn' = [conn EXCEPT ![c].state = "recv", ![c].fan = NoFan]
                    /\ UNCHANGED bot_status
               [] out.status = "error" ->
                    \* RuntimeError leaves forward_to_pc: except Exception
                    /\ bot_status' = CountError(bot_status, conn[c].bot_id)
                    /\ conn' = [conn EXCEPT ![c] = Recovered(@)]
                    /\ UNCHANGED << pc_clients, stats >>
  /\ UNCHANGED << election, emergency, now, signal_filter, swarm_monitor, bot_clients, status_keys, op,
                  monitor, pc_received, audit, budget >>

\* forward_to_pc resumes after a send
ForwardResume(c) ==
  /\ conn[c].state = "forwarding"
  /\ LET fan == conn[c].fan
         sent == SendSucceeds(fan.target)
     IN /\ \E out \in FanOutcomes(fan, pc_clients, sent) :
             CASE out.status = "next" ->
                    /\ conn' = [conn EXCEPT ![c].fan = out.fan]
                    /\ UNCHANGED << pc_clients, stats, bot_status >>
               [] out.status = "done" ->
                    \* self.pc_clients -= disconnected; messages_forwarded += 1
                    /\ pc_clients' = pc_clients \ out.fan.disconnected
                    /\ stats' = [stats EXCEPT !.messages_forwarded = @ + 1]
                    /\ conn' = [conn EXCEPT ![c].state = "recv", ![c].fan = NoFan]
                    /\ UNCHANGED bot_status
               [] out.status = "error" ->
                    \* RuntimeError leaves forward_to_pc: except Exception
                    /\ bot_status' = CountError(bot_status, conn[c].bot_id)
                    /\ conn' = [conn EXCEPT ![c] = Recovered(@)]
                    /\ UNCHANGED << pc_clients, stats >>
  /\ UNCHANGED << election, emergency, now, signal_filter, swarm_monitor, bot_clients, status_keys, op,
                  monitor, pc_received, audit, budget >>

\* a frame that json.loads rejects
BotMalformed(c) ==
  /\ conn[c].state = "recv" /\ conn[c].alive
  /\ budget' = [budget EXCEPT !.frames = @ + 1]
  /\ bot_status' = CountError(bot_status, conn[c].bot_id)
  /\ conn' = [conn EXCEPT ![c] = Recovered(@)]
  /\ UNCHANGED << election, emergency, now, signal_filter, swarm_monitor, bot_clients, status_keys,
                  pc_clients, stats, op, monitor, pc_received, audit >>

\* the peer of websocket c goes away (nothing of the hub changes yet)
BotBreak(c) ==
  /\ conn[c].state \in {"recv", "forwarding"} /\ conn[c].alive
  /\ conn' = [conn EXCEPT ![c].alive = FALSE]
  /\ UNCHANGED << election, emergency, now, signal_filter, swarm_monitor, bot_clients, bot_status,
                  status_keys, pc_clients, stats, op, monitor, pc_received,
                  audit, budget >>

\* the receive loop of websocket c ends (ConnectionClosed): the finally clause
BotClose(c) ==
  /\ conn[c].state = "recv"
  /\ conn' = [conn EXCEPT ![c].state = "closed", ![c].alive = FALSE]
  /\ LET bot_id == conn[c].bot_id
     IN IF bot_id = NoVal
        THEN UNCHANGED << bot_clients, bot_status >>
        ELSE /\ bot_clients' = IF bot_id \in DOMAIN bot_clients
                               THEN Del(bot_clients, bot_id) ELSE bot_clients
             /\ bot_status' = IF bot_id \in DOMAIN bot_status
                              THEN [bot_status EXCEPT ![bot_id].is_online = FALSE]
                              ELSE bot_status
  /\ UNCHANGED << election, emergency, now, signal_filter, swarm_monitor, status_keys, pc_clients, stats,
                  op, monitor, pc_received, audit, budget >>

\* -------------------------------------------------- handle_pc_connection
\* an operator opens a websocket: it joins the pool (the status update sent to
\* it next changes nothing of the hub, whether the send succeeds or not)
OpConnect(o) ==
  /\ op[o] = "new"
  /\ \A p \in Ops : Earlier(p, o) => op[p] # "new"
  /\ op' = [op EXCEPT ![o] = "open"]
  /\ pc_clients' = pc_clients \cup {o}
  /\ UNCHANGED << election, emergency, now, signal_filter, swarm_monitor, bot_clients, bot_status,
                  status_keys, stats, conn, monitor, pc_received, audit, budget >>

\* the peer of operator websocket o goes away: sends to it fail from now on
OpBreak(o) ==
  /\ op[o] = "open"
  /\ op' = [op EXCEPT ![o] = "broken"]
  /\ UNCHANGED << election, emergency, now, signal_filter, swarm_monitor, bot_clients, bot_status,
                  status_keys, pc_clients, stats, conn, monitor, pc_received,
                  audit, budget >>

\* the receive loop of operator websocket o ends: finally pc_clients.discard
OpClose(o) ==
  /\ op[o] \in {"open", "broken"}
  /\ op' = [op EXCEPT ![o] = "closed"]
  /\ pc_clients' = pc_clients \ {o}
  /\ UNCHANGED << election, emergency, now, signal_filter, swarm_monitor, bot_clients, bot_status,
                  status_keys, stats, conn, monitor, pc_received, audit, budget >>

\* websocket.send(...) of a reply to operator o: it arrives when the peer is
\* still there, and raises otherwise
Replied(o, type) ==
  IF op[o] = "open" THEN [pc_received EXCEPT ![o].reply = type, ![o].about = NoVal]
  ELSE pc_received

\* self.bot_clients[bot_id].send(...): the websockets the command arrives on
BotSendArrives(bot_id) ==
  IF bot_id \in DOMAIN bot_clients /\ conn[bot_clients[bot_id]].alive
  THEN {bot_clients[bot_id]} ELSE {}

\* the count of delivered commands after sends that arrived on `arrived`
Delivered(arrived) ==
  [c \in Conns |-> audit.delivered[c] + (IF c \in arrived THEN 1 ELSE 0)]

\* the rules a set_filter_rules command names (NoNum: the key is not named)
RuleUpdates ==
  [rate_limit : {NoNum, 2}, duplicate_window : {NoNum, 0},
   priority_threshold : {NoNum}]

\* an update that replaces the whole rule set: the thresholds the command does
\* not name go back to their defaults
update_filter_rules_ReplaceAll(rules, new_rules) ==
  [rate_limit |-> Get(new_rules.rate_limit, DefaultRules.rate_limit),
   duplicate_window |-> Get(new_rules.duplicate_window, DefaultRules.duplicate_window),
   priority_threshold |-> Get(new_rules.priority_threshold,
                              DefaultRules.priority_threshold)]

\* self.signal_filter.filter_rules.update(new_rules)
update_filter_rules(rules, new_rules) ==
  [rate_limit |-> Get(new_rules.rate_limit, rules.rate_limit),
   duplicate_window |-> Get(new_rules.duplicate_window, rules.duplicate_window),
   priority_threshold |-> Get(new_rules.priority_threshold, rules.priority_threshold)]

\* command set_filter_rules from operator o
SetFilterRules(o, new_rules) ==
  /\ op[o] = "open"
  /\ signal_filter' = [signal_filter EXCEPT
                         !.filter_rules = update_filter_rules(@, new_rules)]
  /\ pc_received' = Replied(o, "response")
  /\ UNCHANGED << election, emergency, now, swarm_monitor, bot_clients, bot_status, status_keys,
                  pc_clients, stats, conn, op, monitor, audit, budget >>

\* assign_exploration_zone: the zone list after the command.  The zone is
\* recorded, with the key assigned_time, when the target is connected and the
\* send to it succeeded.
AssignedZones(zones, target_bot, clients, sent, t) ==
  IF target_bot \in DOMAIN clients /\ sent
  THEN Append(zones, [bot_id |-> target_bot, has_claimed_time |-> FALSE, time |-> t])
  ELSE zones

\* command assign_exploration_zone from operator o.  The send to the bot
\* succeeds when the bot's peer is still there.
AssignExplorationZone(o, target_bot) ==
  /\ op[o] = "open"
  /\ budget' = [budget EXCEPT !.cmds = @ + 1]
  /\ LET sent == target_bot \in DOMAIN bot_clients /\ conn[bot_clients[target_bot]].alive
     IN swarm_monitor' = [swarm_monitor EXCEPT !.exploration_zones =
                            AssignedZones(@, target_bot, bot_clients, sent, now)]
  /\ audit' = [audit EXCEPT !.delivered = Delivered(BotSendArrives(target_bot))]
  /\ pc_received' = Replied(o, "response")
  /\ UNCHANGED << election, emergency, now, signal_filter, bot_clients, bot_status, status_keys,
                  pc_clients, stats, conn, op, monitor >>

\* a forward_to_bot that marks the bot it is asked to command offline
ForwardToBot_MarksOffline(o, target_bot) ==
  /\ op[o] = "open"
  /\ budget' = [budget EXCEPT !.cmds = @ + 1]
  /\ audit' = [audit EXCEPT !.delivered = Delivered(BotSendArrives(target_bot))]
  /\ bot_status' = IF target_bot \in DOMAIN bot_status
                   THEN [bot_status EXCEPT ![target_bot].is_online = FALSE]
                   ELSE bot_status
  /\ UNCHANGED << election, emergency, now, signal_filter, swarm_monitor, bot_clients,
                  status_keys, pc_clients, stats, conn, op, monitor, pc_received >>

\* an operator frame of type bot_command: forward_to_bot
ForwardToBot(o, target_bot) ==
  /\ op[o] = "open"
  /\ budget' = [budget EXCEPT !.cmds = @ + 1]
  /\ audit' = [audit EXCEPT !.delivered = Delivered(BotSendArrives(target_bot))]
  /\ UNCHANGED << election, emergency, now, signal_filter, swarm_monitor, bot_clients, bot_status,
                  status_keys, pc_clients, stats, conn, op, monitor, pc_received >>

\* commands get_status, get_bots and get_swarm_analysis: a report is sent to
\* the operator and nothing of the hub changes
ReportTypes ==
  [get_status |-> "status_update", get_bots |-> "bot_list",
   get_swarm_analysis |-> "swarm_analysis"]

SendReport(o, command) ==
  /\ op[o] = "open"
  /\ budget' = [budget EXCEPT !.cmds = @ + 1]
  /\ pc_received' = Replied(o, ReportTypes[command])
  /\ UNCHANGED << election, emergency, now, signal_filter, swarm_monitor, bot_clients, bot_status,
                  status_keys, pc_clients, stats, conn, op, monitor, audit >>

\* command get_swarm_status: get_swarm_summary computes the coverage
\* efficiency first, which raises on a zone without claimed_time; the
\* exception leaves handle_pc_command and is logged by handle_pc_connection
SendSwarmStatus(o) ==
  /\ op[o] = "open"
  /\ budget' = [budget EXCEPT !.cmds = @ + 1]
  /\ IF CoverageRaises(swarm_monitor.exploration_zones)
     THEN /\ audit' = [audit EXCEPT !.pc_errors = @ + 1]
          /\ UNCHANGED pc_received
     ELSE /\ pc_received' = Replied(o, "swarm_status")
          /\ UNCHANGED audit
  /\ UNCHANGED << election, emergency, now, signal_filter, swarm_monitor, bot_clients, bot_status,
                  status_keys, pc_clients, stats, conn, op, monitor >>

\* the websockets a command sent to every entry of bot_clients arrives on
AllBotSendsArrive ==
  {bot_clients[b] : b \in {d \in DOMAIN bot_clients : conn[bot_clients[d]].alive}}

\* command trigger_leader_election: the election command goes to every
\* connected bot, then the election is active and the leader is forgotten
\* (the sends of the loop over bot_clients are taken in one step: no bot
\* registers or leaves between them)
TriggerLeaderElection(o) ==
  /\ op[o] = "open"
  /\ budget' = [budget EXCEPT !.cmds = @ + 1]
  /\ audit' = [audit EXCEPT !.delivered = Delivered(AllBotSendsArrive)]
  /\ swarm_monitor' = [swarm_monitor EXCEPT !.leadership_election_active = TRUE,
                                            !.leader_bot = NoVal]
  /\ pc_received' = Replied(o, "response")
  /\ UNCHANGED << election, emergency, now, signal_filter, bot_clients, bot_status, status_keys,
                  pc_clients, stats, conn, op, monitor >>

\* lines 908-910: the election is active and the leader is forgotten
ElectionReset(sm) ==
  [sm EXCEPT !.leadership_election_active = TRUE, !.leader_bot = NoVal]

\* command trigger_leader_election, send by send: the loop over
\* self.bot_clients.items() suspends in its first send; with no bot connected
\* the loop is empty, the swarm state is updated and the reply sent.  The
\* length of the swarm log at the call is noted in audit.trigger_log.
TriggerStart(o) ==
  /\ op[o] = "open"
  /\ election.state = "idle"
  /\ budget' = [budget EXCEPT !.cmds = @ + 1]
  /\ audit' = [audit EXCEPT !.trigger_log = Len(swarm_monitor.swarm_messages)]
  /\ IF DOMAIN bot_clients = {}
     THEN /\ swarm_monitor' = ElectionReset(swarm_monitor)
          /\ pc_received' = Replied(o, "response")
          /\ UNCHANGED election
     ELSE /\ \E bot_id \in DOMAIN bot_clients :
                election' = [state |-> "bots", op |-> o, ws |-> bot_clients[bot_id],
                             fan |-> FanBegin(DOMAIN bot_clients, bot_id)]
          /\ UNCHANGED << swarm_monitor, pc_received >>
  /\ UNCHANGED << emergency, now, signal_filter, bot_clients, bot_status, status_keys,
                  pc_clients, stats, conn, op, monitor >>

\* the loop of trigger_swarm_leader_election resumes after a send, which
\* failed (and was logged) or arrived.  The dict iterator raises RuntimeError
\* when the dict changed size meanwhile: the exception leaves the call before
\* the swarm state is updated and is logged by handle_pc_connection.  After
\* the last send the swarm state is updated and the reply sent.
TriggerResume ==
  /\ election.state = "bots"
  /\ LET sent == conn[election.ws].alive
     IN /\ audit' = [audit EXCEPT !.delivered =
                       Delivered(IF sent THEN {election.ws} ELSE {})]
        /\ \E r \in FanOutcomes(election.fan, DOMAIN bot_clients, sent) :
              CASE r.status = "error" ->
                     /\ election' = NoElection
                     /\ UNCHANGED << swarm_monitor, pc_received >>
                [] r.status = "next" ->
                     /\ election' = [election EXCEPT !.ws = bot_clients[r.fan.target],
                                                     !.fan = r.fan]
                     /\ UNCHANGED << swarm_monitor, pc_received >>
                [] OTHER ->
                     /\ election' = NoElection
                     /\ swarm_monitor' = ElectionReset(swarm_monitor)
                     /\ pc_received' = Replied(election.op, "response")
  /\ UNCHANGED << emergency, now, signal_filter, bot_clients, bot_status, status_keys,
                  pc_clients, stats, conn, op, monitor, budget >>

\* command set_formation: the formation command goes to every connected bot
SetFormation(o) ==
  /\ op[o] = "open"
  /\ budget' = [budget EXCEPT !.cmds = @ + 1]
  /\ audit' = [audit EXCEPT !.delivered = Delivered(AllBotSendsArrive)]
  /\ pc_received' = Replied(o, "response")
  /\ UNCHANGED << election, emergency, now, signal_filter, swarm_monitor, bot_clients, bot_status,
                  status_keys, pc_clients, stats, conn, op, monitor >>

\* command restart_bot: handle_pc_command calls self.send_bot_command, a method
\* MicroBotServer does not have; the AttributeError leaves handle_pc_command
\* and is logged by handle_pc_connection.  Nothing is sent.
RestartBot(o, bot_id) ==
  /\ op[o] = "open"
  /\ budget' = [budget EXCEPT !.cmds = @ + 1]
  /\ audit' = [audit EXCEPT !.pc_errors = @ + 1]
  /\ UNCHANGED << election, emergency, now, signal_filter, swarm_monitor, bot_clients, bot_status,
                  status_keys, pc_clients, stats, conn, op, monitor, pc_received >>

\* an unknown command that gets no answer
UnknownCommand_Ignored(o, command) ==
  /\ op[o] = "open"
  /\ budget' = [budget EXCEPT !.cmds = @ + 1]
  /\ UNCHANGED << election, emergency, now, signal_filter, swarm_monitor, bot_clients, bot_status,
                  status_keys, pc_clients, stats, conn, op, monitor, pc_received,
                  audit >>

\* the else branch of handle_pc_command: an error reply that names the command
UnknownCommand(o, command) ==
  /\ op[o] = "open"
  /\ budget' = [budget EXCEPT !.cmds = @ + 1]
  /\ pc_received' = [pc_received EXCEPT ![o].reply = "error", ![o].about = command]
  /\ UNCHANGED << election, emergency, now, signal_filter, swarm_monitor, bot_clients, bot_status,
                  status_keys, pc_clients, stats, conn, op, monitor, audit >>

\* handle_pc_command: the dispatch on data['command']
handle_pc_command(o, data) ==
  CASE data.command \in DOMAIN ReportTypes -> SendReport(o, data.command)
    [] data.command = "get_swarm_status" -> SendSwarmStatus(o)
    [] data.command = "trigger_leader_election" -> TriggerLeaderElection(o)
    [] data.command = "set_formation" -> SetFormation(o)
    [] data.command = "assign_exploration_zone" ->
         AssignExplorationZone(o, data.target_bot)
    [] data.command = "set_filter_rules" -> SetFilterRules(o, data.rules)
    [] data.command = "restart_bot" -> RestartBot(o, data.target_bot)
    [] OTHER -> UnknownCommand(o, data.command)

\* ----------------------------------------------- broadcast_swarm_emergency
\* the second loop of broadcast_swarm_emergency begins: over self.pc_clients,
\* suspended in the send to its first client, or over at once with no client
EmergencyNotify ==
  IF pc_clients = {}
  THEN {[state |-> "done", ws |-> NoVal, fan |-> NoFan]}
  ELSE {[state |-> "ops", ws |-> NoVal, fan |-> FanBegin(pc_clients, target)] :
           target \in pc_clients}

\* broadcast_swarm_emergency is called: the loop over self.bot_clients.items()
\* suspends in its first send, or there is no bot and the second loop begins
EmergencyStart ==
  /\ emergency.state = "idle"
  /\ IF DOMAIN bot_clients = {}
     THEN emergency' \in EmergencyNotify
     ELSE \E bot_id \in DOMAIN bot_clients :
             emergency' = [state |-> "bots", ws |-> bot_clients[bot_id],
                           fan |-> FanBegin(DOMAIN bot_clients, bot_id)]
  /\ UNCHANGED << election, now, signal_filter, swarm_monitor, bot_clients, bot_status,
                  status_keys, pc_clients, stats, conn, op, monitor, pc_received,
                  audit, budget >>

\* the loop over the bots resumes after a send, which failed (and was logged)
\* or arrived; the dict iterator raises RuntimeError when the dict changed size
\* meanwhile, and the exception leaves broadcast_swarm_emergency
EmergencyResume ==
  /\ emergency.state = "bots"
  /\ LET sent == conn[emergency.ws].alive
     IN /\ audit' = [audit EXCEPT !.delivered =
                       Delivered(IF sent THEN {emergency.ws} ELSE {})]
        /\ \E r \in FanOutcomes(emergency.fan, DOMAIN bot_clients, sent) :
              CASE r.status = "error" ->
                     emergency' = [state |-> "raised", ws |-> NoVal, fan |-> NoFan]
                [] r.status = "next" ->
                     emergency' = [state |-> "bots", ws |-> bot_clients[r.fan.target],
                                   fan |-> r.fan]
                [] OTHER -> emergency' \in EmergencyNotify
  /\ UNCHANGED << election, now, signal_filter, swarm_monitor, bot_clients, bot_status,
                  status_keys, pc_clients, stats, conn, op, monitor, pc_received,
                  budget >>

\* the loop over the operators resumes after a send, which failed (and was
\* logged) or arrived; the pool is left as it is
EmergencyNotifyResume ==
  /\ emergency.state = "ops"
  /\ LET sent == SendSucceeds(emergency.fan.target)
     IN /\ pc_received' = IF sent
                          THEN [pc_received EXCEPT
                                  ![emergency.fan.target].reply = "emergency_alert",
                                  ![emergency.fan.target].about = NoVal]
                          ELSE pc_received
        /\ \E r \in FanOutcomes(emergency.fan, pc_clients, sent) :
              CASE r.status = "error" ->
                     emergency' = [state |-> "raised", ws |-> NoVal, fan |-> NoFan]
                [] r.status = "next" ->
                     emergency' = [state |-> "ops", ws |-> NoVal, fan |-> r.fan]
                [] OTHER -> emergency' = [state |-> "done", ws |-> NoVal, fan |-> NoFan]
  /\ UNCHANGED << election, now, signal_filter, swarm_monitor, bot_clients, bot_status,
                  status_keys, pc_clients, stats, conn, op, monitor, audit, budget >>

\* ---------------------------------------------------------- status_monitor
\* a sweep test that forgets the online flag
ShouldFlip_StaleOnly(status, current_time) ==
  current_time - status.last_seen > MonitorTimeout

\* the test of the sweep on one record: stale and still marked online
ShouldFlip(status, current_time) ==
  current_time - status.last_seen > MonitorTimeout /\ status.is_online

\* The for loop of a sweep from position i of the dict, up to its end
\* (stop = 0) or up to the first broadcast_to_pc that suspends in a send
\* (stop = the position of the record).  With no operator connected
\* broadcast_to_pc returns at once and the loop goes on.  flipped: the records
\* set offline; notified: the records broadcast_to_pc was called for.
RECURSIVE SweepFrom(_, _, _, _, _)
SweepFrom(status, keys, i, current_time, pool) ==
  IF i > Len(keys)
  THEN [status |-> status, stop |-> 0, flipped |-> {}, notified |-> {}]
  ELSE IF ShouldFlip(status[keys[i]], current_time)
  THEN LET flipped == [status EXCEPT ![keys[i]].is_online = FALSE]
       IN IF pool = {}
          THEN LET rest == SweepFrom(flipped, keys, i + 1, current_time, pool)
               IN [rest EXCEPT !.flipped = @ \cup {keys[i]},
                               !.notified = @ \cup {keys[i]}]
          ELSE [status |-> flipped, stop |-> i, flipped |-> {keys[i]},
                notified |-> {keys[i]}]
  ELSE SweepFrom(status, keys, i + 1, current_time, pool)

\* the audit after a piece of sweep number `sweep`: an online record that went
\* offline is a flip, a call of broadcast_to_pc with bot_offline is a broadcast
Audited(before, after, notified, sweep) ==
  LET flipped == {b \in DOMAIN before : before[b].is_online /\ ~after[b].is_online}
  IN [verdict |-> audit.verdict,
      sweeps |-> sweep,
      flip_sweep |-> [b \in Bots |-> IF b \in flipped THEN sweep ELSE audit.flip_sweep[b]],
      flips |-> [b \in Bots |-> audit.flips[b] + (IF b \in flipped THEN 1 ELSE 0)],
      broadcasts |-> [b \in Bots |->
                        audit.broadcasts[b] + (IF b \in notified THEN 1 ELSE 0)],
      delivered |-> audit.delivered,
      pc_errors |-> audit.pc_errors]

\* the sweep runs from position i: to its end and asyncio.sleep(5), or into a
\* broadcast
SweepRun(i, current_time, size) ==
  LET r == SweepFrom(bot_status, status_keys, i, current_time, pc_clients)
  IN /\ bot_status' = r.status
     /\ audit' = Audited(bot_status, r.status, r.notified, audit.sweeps + 1)
     /\ IF r.stop = 0
        THEN monitor' = [state |-> "sleep", wake |-> now + SweepInterval,
                         current_time |-> current_time, idx |-> 0, size |-> 0,
                         fan |-> NoFan]
        ELSE \E target \in pc_clients :
               monitor' = [state |-> "broadcast", wake |-> 0,
                           current_time |-> current_time, idx |-> r.stop,
                           size |-> size, fan |-> FanBegin(pc_clients, target)]

\* the monitor wakes up and starts a sweep
SweepStart ==
  /\ monitor.state = "sleep"
  /\ now >= monitor.wake
  /\ SweepRun(1, now, Len(status_keys))
  /\ UNCHANGED << election, emergency, now, signal_filter, swarm_monitor, bot_clients, status_keys,
                  pc_clients, stats, conn, op, pc_received, budget >>

\* broadcast_to_pc resumes after a send; when it is done the sweep goes on with
\* the next record, unless the dict grew meanwhile (RuntimeError, caught by the
\* monitor's except clause, which ends the sweep)
BroadcastResume ==
  /\ monitor.state = "broadcast"
  /\ LET fan == monitor.fan
         sent == SendSucceeds(fan.target)
         bot == status_keys[monitor.idx]
         asleep == [state |-> "sleep", wake |-> now + SweepInterval,
                    current_time |-> monitor.current_time, idx |-> 0, size |-> 0,
                    fan |-> NoFan]
     IN /\ pc_received' = IF sent
                          THEN [pc_received EXCEPT ![fan.target].bot_offline[bot] = @ + 1]
                          ELSE pc_received
        /\ \E out \in FanOutcomes(fan, pc_clients, sent) :
             CASE out.status = "next" ->
                    /\ monitor' = [monitor EXCEPT !.fan = out.fan]
                    /\ UNCHANGED << pc_clients, bot_status, audit >>
               [] out.status = "error" ->
                    /\ monitor' = asleep
                    /\ UNCHANGED << pc_clients, bot_status, audit >>
               [] out.status = "done" ->
                    /\ pc_clients' = pc_clients \ out.fan.disconnected
                    /\ IF Len(status_keys) # monitor.size
                       THEN /\ monitor' = asleep
                            /\ UNCHANGED << bot_status, audit >>
                       ELSE LET r == SweepFrom(bot_status, status_keys, monitor.idx + 1,
                                               monitor.current_time, pc_clients')
                            IN /\ bot_status' = r.status
                               /\ audit' = Audited(bot_status, r.status, r.notified,
                                                    audit.sweeps)
                               /\ IF r.stop = 0
                                  THEN monitor' = asleep
                                  ELSE \E target \in pc_clients' :
                                         monitor' = [monitor EXCEPT
                                            !.idx = r.stop,
                                            !.fan = FanBegin(pc_clients', target)]
  /\ UNCHANGED << election, emergency, now, signal_filter, swarm_monitor, bot_clients, status_keys,
                  stats, conn, op, budget >>

\* ------------------------------------------------------------------- clock
\* a second passes
Tick ==
  /\ budget.ticks < MaxTime
  /\ now' = now + 1
  /\ budget' = [budget EXCEPT !.ticks = @ + 1]
  /\ UNCHANGED << election, emergency, signal_filter, swarm_monitor, bot_clients, bot_status, status_keys,
                  pc_clients, stats, conn, op, monitor, pc_received, audit >>

\* a long quiet period passes: a sweep interval, or just over the timeout
Wait(d) ==
  /\ now' = now + d
  /\ budget' = [budget EXCEPT !.waits = @ + 1]
  /\ UNCHANGED << election, emergency, signal_filter, swarm_monitor, bot_clients, bot_status, status_keys,
                  pc_clients, stats, conn, op, monitor, pc_received, audit >>

\* ---------------------------------------------------------- specifications
\* The filter at work: telemetry frames of two bots, rule updates by an
\* operator, forwarding of the kept messages to that operator.
NextFilter ==
  \/ \E c \in Conns : BotConnect(c)
  \/ \E c \in Conns, frame \in StandardFrames :
        budget.frames < MaxFrames /\ BotFrame(c, frame)
  \/ \E c \in Conns : ForwardResume(c)
  \/ OpConnect("o1")
  \/ \E new_rules \in RuleUpdates : SetFilterRules("o1", new_rules)
  \/ Tick

SpecFilter == Init /\ [][NextFilter]_vars


\* The burst of the rate-limit scenario: one bot sends DefaultRateLimit + 1
\* frames of one kind, with pairwise distinct payloads and a priority that
\* reaches the threshold, all within the same second, to a hub just started.
BurstLen == DefaultRateLimit + 1
BurstFrames(k) ==
  [bot_id : {"A"}, type : {"status"}, priority : {2, 3}, body : {k},
   header : {NoNum}, payload : {NoPayload}]

NextBurst ==
  \/ BotConnect("c1")
  \/ \E frame \in BurstFrames(budget.frames + 1) :
        budget.frames < BurstLen /\ BotFrame("c1", frame)

SpecBurst == Init /\ [][NextBurst]_vars


\* Task assignments: task-assignment frames from two bots.
TaskFrames == {frame \in SwarmFrames : frame.header = MSG_TASK_ASSIGNMENT}

NextTasks ==
  \/ \E c \in Conns : BotConnect(c)
  \/ \E c \in Conns, frame \in TaskFrames :
        budget.frames < MaxTaskFrames /\ BotFrame(c, frame)

SpecTasks == Init /\ [][NextTasks]_vars

\* Elections: discovery and election frames from two bots.
ElectionFrames ==
  {frame \in SwarmFrames : frame.header \in {MSG_DISCOVERY, MSG_LEADER_ELECTION}}

NextElection ==
  \/ \E c \in Conns : BotConnect(c)
  \/ \E c \in Conns, frame \in ElectionFrames :
        budget.frames < MaxElectionFrames /\ BotFrame(c, frame)

SpecElection == Init /\ [][NextElection]_vars

\* Exploration zones: area claims of one bot and zone assignments by an
\* operator, enough of them to fill the zone list.
MaxZoneFrames == ZoneCap + 2
AreaFrames == {frame \in SwarmFrames : frame.header = MSG_AREA_CLAIM}

NextZones ==
  \/ BotConnect("c1")
  \/ \E frame \in AreaFrames : budget.frames < MaxZoneFrames /\ BotFrame("c1", frame)
  \/ OpConnect("o1")
  \/ \E target_bot \in Bots :
        budget.cmds < MaxOpCmds /\ AssignExplorationZone("o1", target_bot)

SpecZones == Init /\ [][NextZones]_vars

\* The health monitor at work: bots register with one frame and fall silent,
\* disconnect and come back on a new websocket; operators come and go; the
\* monitor sweeps and notifies.
HealthFrames ==
  {frame \in StandardFrames : frame.type = "status" /\ frame.priority = 2}

NextHealth ==
  \/ \E c \in Conns : BotConnect(c)
  \/ \E c \in Conns, frame \in HealthFrames :
        conn[c].bot_id = NoVal /\ BotFrame(c, frame)
  \/ \E c \in Conns : BotClose(c)
  \/ \E o \in Ops : OpConnect(o)
  \/ \E o \in Ops : OpClose(o)
  \/ SweepStart
  \/ BroadcastResume
  \/ \E d \in {SweepInterval, MonitorTimeout + 1} : budget.waits < MaxWaits /\ Wait(d)

SpecHealth == Init /\ [][NextHealth]_vars

\* Late messages: bots register, fall silent for longer than the timeout and
\* send again on the same websocket, or come back on a new one, while the
\* monitor sweeps and notifies an operator.
MaxLateFrames == 3

NextLate ==
  \/ \E c \in Conns : BotConnect(c)
  \/ \E c \in Conns, frame \in HealthFrames :
        budget.frames < MaxLateFrames /\ BotFrame(c, frame)
  \/ \E c \in Conns : BotClose(c)
  \/ OpConnect("o1")
  \/ SweepStart
  \/ BroadcastResume
  \/ budget.waits < MaxWaits /\ Wait(MonitorTimeout + 1)

SpecLate == Init /\ [][NextLate]_vars

\* Fan-out: one bot whose messages are forwarded (the operator has set
\* duplicate_window to 0) and whose silence is notified, to a pool of operators
\* that connect, lose their peer and close while a fan-out is suspended.
MaxFanFrames == 2
FanRules == [rate_limit |-> NoNum, duplicate_window |-> 0, priority_threshold |-> NoNum]

NextFanout ==
  \/ BotConnect("c1")
  \/ \E frame \in HealthFrames :
        /\ budget.frames < MaxFanFrames
        /\ frame.bot_id = "A"
        /\ BotFrame("c1", frame)
  \/ ForwardResume("c1")
  \/ \E o \in Ops : OpConnect(o)
  \/ \E o \in Ops : OpBreak(o)
  \/ \E o \in Ops : OpClose(o)
  \/ signal_filter.filter_rules = DefaultRules /\ SetFilterRules("o1", FanRules)
  \/ SweepStart
  \/ BroadcastResume
  \/ budget.waits < MaxWaits /\ Wait(MonitorTimeout + 1)

SpecFanout == Init /\ [][NextFanout]_vars

\* Directed commands: an operator sends bot commands and zone assignments to
\* bots that register, fall silent, are flipped offline by the monitor and
\* disconnect.
NextDirected ==
  \/ \E c \in Conns : BotConnect(c)
  \/ \E c \in Conns, frame \in HealthFrames :
        conn[c].bot_id = NoVal /\ BotFrame(c, frame)
  \/ \E c \in Conns : BotClose(c)
  \/ OpConnect("o1")
  \/ \E target_bot \in Bots :
        budget.cmds < MaxOpCmds /\ ForwardToBot("o1", target_bot)
  \/ \E target_bot \in Bots :
        budget.cmds < MaxOpCmds /\ AssignExplorationZone("o1", target_bot)
  \/ SweepStart
  \/ BroadcastResume
  \/ budget.waits < MaxWaits /\ Wait(MonitorTimeout + 1)

SpecDirected == Init /\ [][NextDirected]_vars

\* Recovery: one bot sends telemetry, area claims and malformed frames while
\* operators join the pool, let its messages through (duplicate_window 0) and
\* assign it zones; frames fail in the parser, in the area-claim handler and
\* in the fan-out.
MaxRecoverFrames == 3
RecoverFrames ==
  {frame \in HealthFrames \cup AreaFrames : frame.bot_id = "A"}

NextRecover ==
  \/ BotConnect("c1")
  \/ \E frame \in RecoverFrames :
        budget.frames < MaxRecoverFrames /\ BotFrame("c1", frame)
  \/ budget.frames < MaxRecoverFrames /\ BotMalformed("c1")
  \/ ForwardResume("c1")
  \/ \E o \in Ops : OpConnect(o)
  \/ signal_filter.filter_rules = DefaultRules /\ SetFilterRules("o1", FanRules)
  \/ budget.cmds < MaxOpCmds /\ AssignExplorationZone("o1", "A")

SpecRecover == Init /\ [][NextRecover]_vars

\* Operator commands: an operator sends command frames, of the documented
\* names and of others, to a hub with up to two bots.
DocumentedCommands ==
  {"get_status", "get_bots", "get_swarm_status", "get_swarm_analysis",
   "trigger_leader_election", "set_formation", "assign_exploration_zone",
   "set_filter_rules", "restart_bot", "ping"}

CommandFrames ==
  [command : DocumentedCommands \cup {"self_destruct"},
   target_bot : Bots,
   rules : {FanRules}]

NextCommands ==
  \/ \E c \in Conns : BotConnect(c)
  \/ \E c \in Conns, frame \in HealthFrames :
        conn[c].bot_id = NoVal /\ BotFrame(c, frame)
  \/ \E o \in Ops : OpConnect(o)
  \/ \E o \in Ops, data \in CommandFrames :
        budget.cmds < MaxOpCmds /\ handle_pc_command(o, data)

SpecCommands == Init /\ [][NextCommands]_vars

\* Sender timestamps: one bot whose telemetry frames carry a timestamp field
\* set by the bot, far from or near to the clock of the hub; the operator
\* turns duplicate detection off and lowers the rate limit; the frames are of
\* low priority and enough of them fit in a second to pass the busy threshold.
MaxStampedFrames == BusyThreshold + 1
StampedFrames ==
  [bot_id : {"A"}, type : {"status"}, priority : {1}, body : Bodies,
   timestamp : {0, 7}, header : {NoNum}, payload : {NoPayload}]

NextSkew ==
  \/ BotConnect("c1")
  \/ \E frame \in StampedFrames :
        budget.frames < MaxStampedFrames /\ BotFrame("c1", frame)
  \/ ForwardResume("c1")
  \/ OpConnect("o1")
  \/ \E new_rules \in {r \in RuleUpdates : r.duplicate_window = 0} :
        /\ update_filter_rules(signal_filter.filter_rules, new_rules) # signal_filter.filter_rules
        /\ SetFilterRules("o1", new_rules)
  \/ Tick

SpecSkew == Init /\ [][NextSkew]_vars

\* Sends to bots: bots register, lose their peer and disconnect; an operator
\* sends bot commands, election and formation commands; the emergency
\* broadcast goes to the bots and then to the operators, who come and go.
NextEmergency ==
  \/ \E c \in Conns : BotConnect(c)
  \/ \E c \in Conns, frame \in HealthFrames :
        conn[c].bot_id = NoVal /\ BotFrame(c, frame)
  \/ \E c \in Conns : BotBreak(c)
  \/ \E c \in Conns : BotClose(c)
  \/ \E o \in Ops : OpConnect(o)
  \/ \E o \in Ops : OpBreak(o)
  \/ \E o \in Ops : OpClose(o)
  \/ \E target_bot \in Bots :
        budget.cmds < MaxOpCmds /\ ForwardToBot("o1", target_bot)
  \/ budget.cmds < MaxOpCmds /\ TriggerLeaderElection("o1")
  \/ budget.cmds < MaxOpCmds /\ SetFormation("o1")
  \/ EmergencyStart
  \/ EmergencyResume
  \/ EmergencyNotifyResume

SpecEmergency == Init /\ [][NextEmergency]_vars

\* Formation requests: one bot asks for formation changes, in bursts and with
\* pauses of a second and of just under the stability window.
MaxFormationFrames == StabilityChanges + 2
FormationFrames ==
  {frame \in SwarmFrames : frame.header = MSG_FORMATION_REQUEST /\ frame.bot_id = "A"}

NextFormation ==
  \/ BotConnect("c1")
  \/ \E frame \in FormationFrames :
        budget.frames < MaxFormationFrames /\ BotFrame("c1", frame)
  \/ \E d \in {1, StabilityWindow - 1} : budget.waits < MaxWaits /\ Wait(d)

SpecFormation == Init /\ [][NextFormation]_vars

\* Full logs: one bot sends a formation request every second, each of which
\* joins the bot's filter history, the swarm message log and the formation
\* history, until the longest of the three has been full for two messages.
MaxLogFrames == SwarmLogCap + 2

NextLogs ==
  \/ BotConnect("c1")
  \/ \E frame \in FormationFrames :
        /\ budget.frames < MaxLogFrames
        /\ budget.waits = budget.frames
        /\ BotFrame("c1", frame)
  \/ budget.waits < budget.frames /\ Wait(1)

SpecLogs == Init /\ [][NextLogs]_vars

\* A busy bot: telemetry of both priorities from one bot, up to two messages
\* past the busy threshold, after the operator has turned duplicate detection
\* off, with the priority threshold as it is or raised.
MaxBusyFrames == BusyThreshold + 2
BusyFrames == {frame \in StandardFrames : frame.bot_id = "A" /\ frame.type = "status"}
BusyRules ==
  [rate_limit : {NoNum}, duplicate_window : {0}, priority_threshold : {NoNum, 3}]

NextBusy ==
  \/ BotConnect("c1")
  \/ \E frame \in BusyFrames : budget.frames < MaxBusyFrames /\ BotFrame("c1", frame)
  \/ ForwardResume("c1")
  \/ OpConnect("o1")
  \/ \E new_rules \in BusyRules :
        /\ signal_filter.filter_rules = DefaultRules
        /\ SetFilterRules("o1", new_rules)
  \/ Tick

SpecBusy == Init /\ [][NextBusy]_vars

\* Repeated assignments: two bots send task assignments for two task ids over
\* a few seconds, with the default priority for a task of type 1 aimed at bot
\* A, or with priority 3 for a task of type 2 aimed at bot B.
TypedTaskFrames ==
  [bot_id : Bots, type : {"signal"}, priority : {2}, body : {1},
   header : {MSG_TASK_ASSIGNMENT},
   payload : {[fitnessScore |-> NoNum, generation |-> NoNum, taskId |-> id,
               taskPriority |-> NoNum, taskType |-> 1, targetBot |-> "A"] :
                 id \in {NoNum, 1}}
             \cup {[fitnessScore |-> NoNum, generation |-> NoNum, taskId |-> id,
                    taskPriority |-> 3, taskType |-> 2, targetBot |-> "B"] :
                      id \in {NoNum, 1}}]

MaxAssignFrames == 3

NextAssign ==
  \/ \E c \in Conns : BotConnect(c)
  \/ \E c \in Conns, frame \in TypedTaskFrames :
        budget.frames < MaxAssignFrames /\ BotFrame(c, frame)
  \/ Tick

SpecAssign == Init /\ [][NextAssign]_vars

\* Unknown codes: two bots send swarm frames of a messageType no branch of the
\* dispatch names, among discovery and genome-share frames.
UnknownFrames == {frame \in SwarmFrames : frame.header = MSG_UNKNOWN}

NextUnknown ==
  \/ \E c \in Conns : BotConnect(c)
  \/ \E c \in Conns, frame \in SwarmFrames :
        /\ frame.header \in {MSG_UNKNOWN, MSG_DISCOVERY, MSG_GENOME_SHARE}
        /\ budget.frames < MaxAssignFrames
        /\ BotFrame(c, frame)
  \/ Tick

SpecUnknown == Init /\ [][NextUnknown]_vars


\* An operator-triggered election in steps: two bots register and send
\* election bids while the operator's trigger command is sending to them; a
\* bot may leave meanwhile.
MaxTriggerFrames == 3
BidFrames ==
  {frame \in SwarmFrames : /\ frame.header = MSG_LEADER_ELECTION
                           /\ frame.payload.generation # NoNum}

NextTrigger ==
  \/ \E c \in Conns : BotConnect(c)
  \/ \E c \in Conns, frame \in BidFrames :
        budget.frames < MaxTriggerFrames /\ BotFrame(c, frame)
  \/ \E c \in Conns : BotClose(c)
  \/ OpConnect("o1")
  \/ budget.cmds < MaxOpCmds /\ TriggerStart("o1")
  \/ TriggerResume

SpecTrigger == Init /\ [][NextTrigger]_vars


\* The operator-triggered election with the hub's scheduling: the event loop
\* runs every handler that can take a step, so no enabled step is put off for
\* ever.
SpecTriggerFair == SpecTrigger /\ WF_vars(NextTrigger)


\* The aggregator and the filter: one bot sends swarm frames of every message
\* type, dropped under the default rules and kept once an operator has set
\* duplicate_window to 0.
MaxAggregateFrames == MaxRecoverFrames

NextAggregate ==
  \/ BotConnect("c1")
  \/ \E frame \in {f \in SwarmFrames : f.bot_id = "A"} :
        budget.frames < MaxAggregateFrames /\ BotFrame("c1", frame)
  \/ ForwardResume("c1")
  \/ OpConnect("o1")
  \/ signal_filter.filter_rules = DefaultRules /\ SetFilterRules("o1", FanRules)

SpecAggregate == Init /\ [][NextAggregate]_vars


\* Keep-alive: a connected bot sends telemetry and area claims with gaps well
\* under the monitor's timeout, an operator assigns it a zone, the monitor
\* sweeps and notifies.
KeepAliveGap == MonitorTimeout \div 2 + 1

NextKeepAlive ==
  \/ BotConnect("c1")
  \/ \E frame \in RecoverFrames :
        budget.frames < MaxLateFrames /\ BotFrame("c1", frame)
  \/ OpConnect("o1")
  \/ budget.cmds < MaxOpCmds /\ AssignExplorationZone("o1", "A")
  \/ SweepStart
  \/ BroadcastResume
  \/ budget.waits < MaxWaits /\ Wait(KeepAliveGap)

SpecKeepAlive == Init /\ [][NextKeepAlive]_vars

\* ------------------------------------------------------------------ claims
History(b) == signal_filter.message_history[b]
Rules == signal_filter.filter_rules

\* this step passed a message of bot b to the filter; Decided(b) is that
\* message as the filter left it
FilterPassed(b) ==
  Len(signal_filter'.message_history[b]) = Len(signal_filter.message_history[b]) + 1
Decided(b) == Last(signal_filter'.message_history[b])

\* the messages received from bot b before this step, less than a second ago
EarlierRecent(b) ==
  {i \in 1..Len(History(b)) : now - History(b)[i].timestamp < RateWindow}
\* those of the same kind and payload as m
EarlierSame(b, m) ==
  {i \in 1..Len(History(b)) : /\ History(b)[i].message_type = m.message_type
                              /\ History(b)[i].data.frame.body = m.data.frame.body}
\* those of them received less than duplicate_window before m
EarlierDuplicates(b, m) ==
  {i \in EarlierSame(b, m) : m.timestamp - History(b)[i].timestamp < Rules.duplicate_window}

\* C1: after a burst of 11 messages of one kind from one bot within one second
\* at rate_limit = 10, exactly 10 were forwarded and exactly 1 was filtered.
C1_BurstForwardsTen ==
  (budget.frames = BurstLen /\ conn["c1"].state = "recv" /\ Rules.rate_limit = DefaultRateLimit)
    => (stats.messages_forwarded = DefaultRateLimit /\ stats.messages_filtered = 1)

\* C2: a message is kept when fewer than rate_limit earlier messages of its bot
\* are less than a second old, no earlier message of its bot inside the
\* duplicate window has its kind and payload, and the priority gate does not
\* apply; so the first message of a bot is kept.
C2_KeptWhenNoCheckMatches ==
  [][\A b \in Bots : FilterPassed(b) =>
       ((/\ Cardinality(EarlierRecent(b)) < Rules.rate_limit
         /\ EarlierDuplicates(b, Decided(b)) = {}
         /\ ~(/\ Decided(b).priority < Rules.priority_threshold
              /\ Cardinality(EarlierRecent(b)) > BusyThreshold))
        => ~Decided(b).filtered)]_vars

\* C3: a message with the kind and payload of an earlier message of the same
\* bot, received less than duplicate_window before it, is dropped, whatever
\* its priority.
C3_DuplicateDropped ==
  [][\A b \in Bots : FilterPassed(b) =>
       (EarlierDuplicates(b, Decided(b)) # {} => Decided(b).filtered)]_vars

\* a repeat inside the window, of a priority that reaches the threshold, was
\* dropped as a duplicate
C3_Witness ==
  \E b \in Bots :
     /\ Len(History(b)) >= 2
     /\ LET m == Last(History(b))
        IN /\ \E i \in 1..(Len(History(b)) - 1) :
                 /\ History(b)[i].message_type = m.message_type
                 /\ History(b)[i].data.frame.body = m.data.frame.body
                 /\ m.timestamp - History(b)[i].timestamp < Rules.duplicate_window
           /\ m.priority >= Rules.priority_threshold
           /\ m.filtered
     /\ audit.verdict = "duplicate"

\* C4: a repeat of a message received duplicate_window or more after the
\* previous message of its kind and payload is accepted, when neither the rate
\* limit nor the priority gate applies.
C4_RepeatAfterWindowAccepted ==
  [][\A b \in Bots : FilterPassed(b) =>
       ((/\ EarlierSame(b, Decided(b)) # {}
         /\ EarlierDuplicates(b, Decided(b)) = {}
         /\ Cardinality(EarlierRecent(b)) + 1 < Rules.rate_limit
         /\ Decided(b).priority >= Rules.priority_threshold)
        => ~Decided(b).filtered)]_vars

\* C5: every message passed to the filter joins the history of its bot, kept or
\* dropped, and the messages dropped earlier count like the kept ones: the
\* message is dropped when it and the earlier messages of the last second,
\* dropped or kept, reach rate_limit, and when an earlier message inside the
\* duplicate window, dropped or kept, has its kind and payload.
C5_DroppedStillCount ==
  [][stats'.messages_processed = stats.messages_processed + 1 =>
       \E b \in Bots :
          /\ FilterPassed(b)
          /\ SubSeq(signal_filter'.message_history[b], 1, Len(History(b))) = History(b)
          /\ Decided(b).timestamp = now
          /\ Cardinality(EarlierRecent(b)) + 1 >= Rules.rate_limit => Decided(b).filtered
          /\ EarlierDuplicates(b, Decided(b)) # {} => Decided(b).filtered]_vars

\* a message was rate limited although it is the only message of the last
\* second that was not dropped before
C5_Witness ==
  \E b \in Bots :
     /\ Len(History(b)) >= 2
     /\ audit.verdict = "rate"
     /\ Last(History(b)).timestamp = now
     /\ Cardinality({i \in 1..(Len(History(b)) - 1) :
                       /\ now - History(b)[i].timestamp < RateWindow
                       /\ History(b)[i].filtered}) >= 1
     /\ Cardinality({i \in 1..(Len(History(b)) - 1) :
                       /\ now - History(b)[i].timestamp < RateWindow
                       /\ ~History(b)[i].filtered}) + 1 < Rules.rate_limit

\* C6: when the history of the bot, as the filter sees it, holds rate_limit or
\* more entries less than a second old, the message is dropped by the rate
\* limit, before the duplicate check and the priority gate and for every
\* priority.
C6_RateLimitAbsolute ==
  [][\A b \in Bots : FilterPassed(b) =>
       (Cardinality({i \in 1..Len(signal_filter'.message_history[b]) :
                       now - signal_filter'.message_history[b][i].timestamp < RateWindow})
          >= Rules.rate_limit
        => Decided(b).filtered /\ audit'.verdict = "rate")]_vars

\* a message of a priority that reaches the threshold, and a duplicate besides,
\* was dropped by the rate limit
C6_Witness ==
  \E b \in Bots :
     /\ Len(History(b)) >= 2
     /\ audit.verdict = "rate"
     /\ Last(History(b)).timestamp = now
     /\ Last(History(b)).filtered
     /\ Last(History(b)).priority >= Rules.priority_threshold
     /\ Rules.duplicate_window > 0


\* the task-assignment messages of the swarm log
TaskMessages ==
  {i \in 1..Len(swarm_monitor.swarm_messages) :
     swarm_monitor.swarm_messages[i].type = MSG_TASK_ASSIGNMENT}

\* C7: in every reachable state, after any sequence of task-assignment
\* messages (any senders, any task ids, repeated ids included), active_tasks
\* holds no two entries with the same task id.
C7_NoDuplicateTaskIds ==
  \A i, j \in 1..Len(swarm_monitor.active_tasks) :
     i # j => swarm_monitor.active_tasks[i].id # swarm_monitor.active_tasks[j].id

\* two bots have sent three assignments, the first and the last with the same
\* task id, and both ids are in the list
C7_Witness ==
  /\ Len(swarm_monitor.active_tasks) = 2
  /\ \E i, j, k \in TaskMessages :
       /\ i < j /\ j < k
       /\ Get(swarm_monitor.swarm_messages[i].payload.taskId, 0)
            = Get(swarm_monitor.swarm_messages[k].payload.taskId, 0)
       /\ Get(swarm_monitor.swarm_messages[j].payload.taskId, 0)
            # Get(swarm_monitor.swarm_messages[k].payload.taskId, 0)
       /\ swarm_monitor.swarm_messages[i].bot_id # swarm_monitor.swarm_messages[k].bot_id

\* C8: in every reachable state, after any sequence of bot area-claim messages
\* and operator assign_exploration_zone commands, exploration_zones holds at
\* most 20 entries.
C8_ZonesAtMostTwenty ==
  Len(swarm_monitor.exploration_zones) <= ZoneCap

\* the position of the latest discovery message of bot b in the swarm log, 0
\* when there is none
LatestDiscovery(b) ==
  LET found == {i \in 1..Len(swarm_monitor.swarm_messages) :
                  /\ swarm_monitor.swarm_messages[i].bot_id = b
                  /\ swarm_monitor.swarm_messages[i].type = MSG_DISCOVERY}
  IN IF found = {} THEN 0 ELSE CHOOSE i \in found : \A j \in found : j <= i

\* the fitnessScore of the latest discovery message of bot b, 0 when the log
\* holds none or the message carries none
ObservedFitness(b) ==
  IF LatestDiscovery(b) = 0 THEN 0
  ELSE Get(swarm_monitor.swarm_messages[LatestDiscovery(b)].payload.fitnessScore, 0)

\* a step that logs one more swarm message, an election message that carries
\* generation and fitnessScore
ElectionBidStep ==
  /\ Len(swarm_monitor'.swarm_messages) = Len(swarm_monitor.swarm_messages) + 1
  /\ Last(swarm_monitor'.swarm_messages).type = MSG_LEADER_ELECTION
  /\ Last(swarm_monitor'.swarm_messages).payload.generation # NoNum
  /\ Last(swarm_monitor'.swarm_messages).payload.fitnessScore # NoNum

\* C9: on an election message carrying both generation and fitnessScore the
\* sender becomes leader if and only if no leader is set or its fitness is
\* strictly greater than the fitnessScore of the most recent discovery message
\* of the current leader in the swarm log (0 when there is none); otherwise the
\* leader is unchanged.  Fitness is counted in tenths: 5 is 0.5, 8 is 0.8.
C9_LeaderElection ==
  [][ElectionBidStep =>
       LET bid == Last(swarm_monitor'.swarm_messages)
           wins == \/ swarm_monitor.leader_bot = NoVal
                   \/ bid.payload.fitnessScore > ObservedFitness(swarm_monitor.leader_bot)
       IN swarm_monitor'.leader_bot =
            IF wins THEN bid.bot_id ELSE swarm_monitor.leader_bot]_vars

\* the example: on a fresh hub A's discovery with fitness 0.5, then B's
\* election message with fitness 0.8 and a generation; the leader is B
C9_Witness ==
  /\ Len(swarm_monitor.swarm_messages) = 2
  /\ swarm_monitor.swarm_messages[1].bot_id = "A"
  /\ swarm_monitor.swarm_messages[1].type = MSG_DISCOVERY
  /\ swarm_monitor.swarm_messages[1].payload.fitnessScore = 5
  /\ swarm_monitor.swarm_messages[2].bot_id = "B"
  /\ swarm_monitor.swarm_messages[2].type = MSG_LEADER_ELECTION
  /\ swarm_monitor.swarm_messages[2].payload.fitnessScore = 8
  /\ swarm_monitor.swarm_messages[2].payload.generation # NoNum
  /\ swarm_monitor.leader_bot = "B"

\* C10: each transition of a bot record from online to offline made by a sweep
\* is followed by exactly one call of broadcast_to_pc with bot_offline, from
\* which no operator receives more than one notification; a record that is
\* already offline gets no further bot_offline on a later sweep.
C10_OneNotificationPerFlip ==
  \A b \in Bots :
     /\ audit.broadcasts[b] = audit.flips[b]
     /\ \A o \in Ops : pc_received[o].bot_offline[b] <= audit.flips[b]

\* a sweep set a silent bot offline and an operator got the notification; a
\* later sweep has run over the record, offline and still stale, and the
\* counts stay at one
C10_Witness ==
  \E b \in DOMAIN bot_status, o \in Ops :
     /\ audit.flips[b] = 1
     /\ audit.broadcasts[b] = 1
     /\ pc_received[o].bot_offline[b] = 1
     /\ ~bot_status[b].is_online
     /\ monitor.state = "sleep"
     /\ monitor.current_time - bot_status[b].last_seen > MonitorTimeout
     /\ audit.sweeps > audit.flip_sweep[b]


\* this step ends a sweep of the monitor: the for loop ran to its end or left
\* through the except clause, and the monitor sleeps
SweepEnds ==
  /\ monitor'.state = "sleep"
  /\ monitor.state = "broadcast" \/ (monitor.state = "sleep" /\ monitor' # monitor)

\* C11: a record that is online and whose last_seen is more than 30 s before
\* the time of a sweep is offline when that sweep ends, also when bots
\* register or operator connections close while the sweep is suspended in a
\* notification send.
C11_StaleFlippedBySweep ==
  [][SweepEnds =>
       \A b \in DOMAIN bot_status' :
          monitor'.current_time - bot_status'[b].last_seen > MonitorTimeout
            => ~bot_status'[b].is_online]_vars


\* C12: any new inbound message from a bot sets the online flag of the bot's
\* record to true, also after the monitor flipped the record offline and
\* whatever the sweep is doing.
C12_MessageSetsOnline ==
  [][\A b \in Bots : FilterPassed(b) => bot_status'[b].is_online]_vars

\* a bot flipped offline by a sweep has sent again on its first websocket, the
\* only one it ever had, and its record is still offline
C12_LateMessageLeavesOffline ==
  \E b \in DOMAIN bot_status :
     /\ audit.flips[b] = 1
     /\ bot_status[b].message_count = 2
     /\ bot_status[b].last_seen > MonitorTimeout
     /\ ~bot_status[b].is_online
     /\ \E c \in Conns : /\ conn[c].bot_id = b /\ conn[c].state = "recv"
                         /\ \A d \in Conns \ {c} : conn[d].bot_id # b


\* the fan-outs that end in this step: forward_to_pc of a bot websocket, or
\* broadcast_to_pc of the monitor; each as its loop stood before the step
EndingFans ==
  {conn[c].fan : c \in {d \in Conns : /\ conn[d].state = "forwarding"
                                      /\ conn'[d].state = "recv"}}
  \cup (IF /\ monitor.state = "broadcast"
           /\ monitor'.state = "sleep" \/ monitor'.idx # monitor.idx
        THEN {monitor.fan} ELSE {})

\* the connections the sends of a fan-out failed on, and those it sent to
FanFailed(fan) ==
  fan.disconnected \cup (IF SendSucceeds(fan.target) THEN {} ELSE {fan.target})
FanAttempted(fan) == fan.visited \cup {fan.target}

\* the set iterator raises when the fan-out asks it for the next connection
FanRaises(fan) == Cardinality(pc_clients) # fan.size

\* C13: when a send of a fan-out fails, the fan-out removes the failed
\* connections and no other from the pool, and it has sent to every other
\* connection that was in the pool when it started (and is still in it).
C13_FailedSendRemovesOnlyThat ==
  [][\A fan \in EndingFans :
       FanFailed(fan) # {} =>
         /\ pc_clients' = pc_clients \ FanFailed(fan)
         /\ (fan.initial \cap pc_clients) \subseteq FanAttempted(fan)]_vars

\* C14: a fan-out iterates a snapshot of the pool: when connections join or
\* leave the pool while it is suspended in a send, it ends without raising and
\* has sent to every connection that was in the pool at its start (and is
\* still in it).
C14_FanOutIteratesSnapshot ==
  [][\A fan \in EndingFans :
       /\ ~FanRaises(fan)
       /\ (fan.initial \cap pc_clients) \subseteq FanAttempted(fan)]_vars


\* no bot can be the target of a directed command: every bot id is without a
\* registered connection or has a record that is offline
NoBotAvailable ==
  \A b \in Bots : b \notin DOMAIN bot_clients \/ ~bot_status[b].is_online

\* C15: a directed bot command (forward_to_bot, assign_exploration_zone) whose
\* target has no registered connection or an offline record sends nothing to
\* any bot and changes no hub state; so a bot the monitor flipped offline gets
\* no directed command.
C15_DirectedCommandNoOp ==
  [][(budget'.cmds = budget.cmds + 1 /\ NoBotAvailable) =>
       /\ audit'.delivered = audit.delivered
       /\ swarm_monitor' = swarm_monitor
       /\ bot_status' = bot_status
       /\ bot_clients' = bot_clients]_vars

\* a bot that the monitor flipped offline, still connected, has received a
\* directed command, and a zone was recorded for it
C15_OfflineBotCommanded ==
  \E b \in DOMAIN bot_clients :
     /\ ~bot_status[b].is_online
     /\ audit.flips[b] = 1
     /\ audit.delivered[bot_clients[b]] >= 1
     /\ \E i \in 1..Len(swarm_monitor.exploration_zones) :
           swarm_monitor.exploration_zones[i].bot_id = b


\* C16: a frame of a bot that fails to parse is discarded: nothing is
\* forwarded, the filter history and the swarm state are unchanged, the error
\* count of the sender goes up by exactly 1 when the sender is registered, and
\* the connection stays open.
C16_MalformedFrameDiscarded ==
  [][\A c \in Conns : BotMalformed(c) =>
       /\ signal_filter' = signal_filter
       /\ swarm_monitor' = swarm_monitor
       /\ stats' = stats
       /\ pc_received' = pc_received
       /\ bot_clients' = bot_clients
       /\ conn'[c].state = "recv" /\ conn'[c].alive
       /\ bot_status' =
            IF conn[c].bot_id = NoVal THEN bot_status
            ELSE [bot_status EXCEPT ![conn[c].bot_id].error_count = @ + 1]]_vars

\* a registered bot has sent one good frame and one malformed one, and nothing
\* else has failed: one message in the history, one error counted
C16_Witness ==
  /\ conn["c1"].state = "recv" /\ conn["c1"].bot_id = "A"
  /\ budget.frames = 2
  /\ Len(History("A")) = 1
  /\ bot_status["A"].message_count = 1
  /\ bot_status["A"].error_count = 1
  /\ swarm_monitor.exploration_zones = << >>
  /\ pc_clients = {}

\* the handling of a frame on websocket c fails in this step: in the parser,
\* in a swarm handler, or in the fan-out of forward_to_pc
FrameFailed(c) ==
  \/ BotMalformed(c)
  \/ \E frame \in SwarmFrames :
        /\ BotFrame(c, frame)
        /\ process_swarm_message(swarm_monitor,
                                 IF conn[c].bot_id = NoVal THEN frame.bot_id
                                 ELSE conn[c].bot_id, frame, now).raised
  \/ ForwardResume(c) /\ FanRaises(conn[c].fan)

HubState ==
  << signal_filter, swarm_monitor, bot_clients, bot_status, status_keys,
     pc_clients, stats, audit.delivered >>

\* C18: an operator command frame whose command name is not a known command
\* gets an error reply sent to the issuing operator, the operator stays in the
\* pool, and no hub state changes.
C18_UnknownCommandRefused ==
  [][\A o \in Ops, data \in CommandFrames :
       (data.command \notin DocumentedCommands /\ handle_pc_command(o, data)) =>
         /\ pc_received'[o].reply = "error"
         /\ pc_received'[o].about = data.command
         /\ \A p \in Ops \ {o} : pc_received'[p] = pc_received[p]
         /\ o \in pc_clients' /\ op'[o] = "open"
         /\ audit'.pc_errors = audit.pc_errors
         /\ HubState' = HubState]_vars

\* an operator sent an unknown command after a good one: the last reply it got
\* is the error that names the command, and it is in the pool
C18_Witness ==
  /\ budget.cmds = 2
  /\ pc_received["o1"].reply = "error"
  /\ pc_received["o1"].about = "self_destruct"
  /\ op["o1"] = "open" /\ "o1" \in pc_clients
  /\ swarm_monitor.leadership_election_active

\* C19: each of the ten documented commands is dispatched to its own handling:
\* it gets no unknown-command error reply and its handling does not raise;
\* restart_bot sends a command to the named bot when that bot is connected.
C19_KnownCommandsHandled ==
  [][\A o \in Ops, data \in CommandFrames :
       (data.command \in DocumentedCommands /\ handle_pc_command(o, data)) =>
         /\ pc_received'[o].reply # "error"
         /\ audit'.pc_errors = audit.pc_errors
         /\ (data.command = "restart_bot" /\ BotSendArrives(data.target_bot) # {})
              => audit'.delivered = Delivered(BotSendArrives(data.target_bot))]_vars

\* the operator sent restart_bot and then ping with a bot connected: the first
\* raised and delivered nothing, the second was answered as unknown
C19_RestartRaisedPingRefused ==
  /\ budget.cmds = 2
  /\ bot_clients # << >>
  /\ \A c \in Conns : audit.delivered[c] = 0
  /\ swarm_monitor = NewSwarmMonitor
  /\ audit.pc_errors = 1
  /\ pc_received["o1"].reply = "error"
  /\ pc_received["o1"].about = "ping"


\* C20: the record of a bot id is created on its first message and is never
\* destroyed or replaced: message_count and error_count of each bot id never
\* decrease, also across a disconnect and a reconnect.
C20_RecordKeptForever ==
  [][\A b \in DOMAIN bot_status :
       /\ b \in DOMAIN bot_status'
       /\ bot_status'[b].message_count >= bot_status[b].message_count
       /\ bot_status'[b].error_count >= bot_status[b].error_count]_vars

\* a bot sent two messages, disconnected and sent one message on a new
\* websocket: its record counts one message
C20_ReconnectResetsCounts ==
  \E b \in DOMAIN bot_status :
     /\ Len(History(b)) = 3
     /\ bot_status[b].message_count = 1
     /\ bot_status[b].is_online
     /\ conn["c1"].bot_id = b /\ conn["c1"].state = "closed"
     /\ conn["c2"].bot_id = b /\ conn["c2"].state = "recv"


\* the history entry the hub holds for m in a run in which the frame of m came
\* with the timestamp field stamp, at the same receipt time and with the same
\* decision
Restamp(m, stamp) ==
  LET other == BotMessage([m.data.frame EXCEPT !.timestamp = stamp], m.data.processed_at)
  IN [other EXCEPT !.filtered = m.filtered, !.data.processed_at = m.data.processed_at]
\* the histories of the runs that differ from this one in timestamp fields only
Restamped(history) ==
  {[i \in 1..Len(history) |-> Restamp(history[i], stamps[i])] :
     stamps \in [1..Len(history) -> {frame.timestamp : frame \in StampedFrames}]}

\* C21: the decision of the filter does not depend on the timestamp field of
\* the frames: with the same frames at the same receipt times and any other
\* values of their timestamp fields, the filter takes the same decision, by
\* the same check (rate limit, duplicate, priority gate or keep).
C21_VerdictIgnoresSenderTimestamp ==
  [][\A frame \in StampedFrames : BotFrame("c1", frame) =>
       \A other \in Restamped(History(frame.bot_id)), stamp \in {0, 7} :
          LET m == BotMessage([frame EXCEPT !.timestamp = stamp], now)
          IN FilterVerdict(AppendCap(other, m, HistoryCap), m, now, Rules)
                = audit'.verdict]_vars

\* frames with both values of the timestamp field were received in one second
\* with duplicate detection off; some were kept, one was dropped by the
\* priority gate
C21_Witness ==
  /\ Rules.duplicate_window = 0
  /\ Len(History("A")) = MaxStampedFrames
  /\ \E i, j \in 1..Len(History("A")) :
        /\ History("A")[i].data.frame.timestamp # History("A")[j].data.frame.timestamp
        /\ History("A")[i].timestamp = History("A")[j].timestamp
  /\ ~History("A")[1].filtered
  /\ audit.verdict = "priority"


\* C22: the online flag of a bot record goes from true to false only in a
\* sweep of the health monitor that finds the record stale, or in the cleanup
\* of a connection of that bot; no frame, command or fan-out step does it.
C22_OfflineOnlyBySweepOrCleanup ==
  [][\A b \in DOMAIN bot_status :
       bot_status[b].is_online /\ ~bot_status'[b].is_online =>
          \/ SweepStart /\ ShouldFlip(bot_status[b], now)
          \/ BroadcastResume /\ ShouldFlip(bot_status[b], monitor.current_time)
          \/ \E c \in Conns : BotClose(c) /\ conn[c].bot_id = b]_vars

\* one bot was set offline by a sweep and the other by the cleanup of its
\* connection, at a hub whose operator has sent commands
C22_Witness ==
  /\ DOMAIN bot_status = Bots
  /\ ~bot_status["A"].is_online /\ audit.flips["A"] = 1
  /\ \E c \in Conns : conn[c].bot_id = "A" /\ conn[c].state = "recv"
  /\ ~bot_status["B"].is_online /\ audit.flips["B"] = 0
  /\ \E c \in Conns : conn[c].bot_id = "B" /\ conn[c].state = "closed"
  /\ budget.cmds > 0


\* in this step a send to the websocket registered for bot b fails: in
\* forward_to_bot, trigger_swarm_leader_election, set_swarm_formation or
\* broadcast_swarm_emergency
BotSendFails(b) ==
  \/ /\ b \in DOMAIN bot_clients /\ ~conn[bot_clients[b]].alive
     /\ \/ \E o \in Ops : ForwardToBot(o, b)
        \/ \E o \in Ops : TriggerLeaderElection(o)
        \/ \E o \in Ops : SetFormation(o)
  \/ /\ EmergencyResume
     /\ emergency.fan.target = b /\ ~conn[emergency.ws].alive

\* C23: after a failed send to a bot in forward_to_bot,
\* trigger_swarm_leader_election, set_swarm_formation or
\* broadcast_swarm_emergency, the handle of that bot is no longer in the pool
\* of bots.
C23_FailedBotSendRemovesHandle ==
  [][\A b \in Bots : BotSendFails(b) => b \notin DOMAIN bot_clients']_vars

\* a command was sent to a bot whose peer is gone, arrived nowhere, and the
\* handle is still in the pool
C23_BrokenBotStaysInPool ==
  /\ budget.cmds = 1
  /\ \A c \in Conns : audit.delivered[c] = 0
  /\ "A" \in DOMAIN bot_clients /\ ~conn[bot_clients["A"]].alive
  /\ emergency.state = "idle"


\* C24: the emergency broadcast attempts a send on every connected bot and
\* then on every connected operator: the fan-out over the bots goes on to the
\* operators whatever the sends do and whichever bots connect or disconnect
\* meanwhile, and an operator connection whose send failed is removed from the
\* pool of operators.
C24_EmergencyFanOutTolerant ==
  [][/\ emergency.state = "bots" => emergency'.state # "raised"
     /\ (EmergencyNotifyResume /\ ~SendSucceeds(emergency.fan.target))
          => emergency.fan.target \notin pc_clients']_vars

\* the broadcast was left by an exception with an operator connected and
\* waiting that never got the alert
C24_OperatorNeverAlerted ==
  /\ emergency.state = "raised"
  /\ "o1" \in pc_clients /\ op["o1"] = "open"
  /\ pc_received["o1"].reply = NoVal
  /\ \E c \in Conns : audit.delivered[c] = 1


\* the formation changes of the history that are younger than the window
RecentChanges(formation_history) ==
  Cardinality({i \in 1..Len(formation_history) :
                 now - formation_history[i].timestamp < StabilityWindow})

\* the stability the claim states for a history, in tenths
StatedStability(formation_history) ==
  IF Len(formation_history) <= 1 THEN 10
  ELSE IF RecentChanges(formation_history) >= 10 THEN 0
  ELSE 10 - RecentChanges(formation_history)

\* C25: the formation stability is 1.0 with 0 or 1 entries in the formation
\* history, and max(0, 1 - recentChanges/10) with 2 or more, recentChanges
\* counting the entries younger than 60 s: 0 from 10 recent changes on.  It
\* holds of the score a formation request is answered with and of the score
\* computed in any state.
C25_FormationStability ==
  [][/\ _calculate_formation_stability(swarm_monitor.formation_history, now)
          = StatedStability(swarm_monitor.formation_history)
     /\ \A frame \in FormationFrames : BotFrame("c1", frame) =>
           Decided(frame.bot_id).data.swarm_analysis.formation_stability
             = StatedStability(swarm_monitor'.formation_history)]_vars

\* the first request was answered with stability 1.0, a later one with 0.0,
\* and after a pause some changes are out of the window: the stability is back
\* above 0
C25_Witness ==
  /\ Len(History("A")) = MaxFormationFrames
  /\ History("A")[1].data.swarm_analysis.formation_stability = 10
  /\ \E i \in 1..Len(History("A")) :
        History("A")[i].data.swarm_analysis.formation_stability = 0
  /\ Last(History("A")).data.swarm_analysis.formation_stability \in 1..9
  /\ RecentChanges(swarm_monitor.formation_history)
        < Len(swarm_monitor.formation_history)


\* C26: in every reachable state, zones assigned by an operator included, the
\* coverage efficiency evaluates without error, to min(1, recentZoneCount/5)
\* (in fifths: the number of zones claimed in the last 300 s, at most 5).
C26_CoverageEfficiencyDefined ==
  /\ ~CoverageRaises(swarm_monitor.exploration_zones)
  /\ LET recentZoneCount ==
           Cardinality({i \in 1..Len(swarm_monitor.exploration_zones) :
                          now - swarm_monitor.exploration_zones[i].time < 300})
     IN _calculate_coverage_efficiency(swarm_monitor.exploration_zones, now)
          = IF recentZoneCount >= 5 THEN 5 ELSE recentZoneCount

\* after a zone assignment by the operator, an area claim of the bot ended in
\* the exception of the coverage computation: counted as an error of the bot,
\* its message without analysis
C26_AreaClaimRaised ==
  /\ CoverageRaises(swarm_monitor.exploration_zones)
  /\ Len(History("A")) > 0
  /\ Last(History("A")).data.frame.header = MSG_AREA_CLAIM
  /\ Last(History("A")).data.swarm_analysis = NoAnalysis
  /\ bot_status["A"].error_count = 1


\* log `after` is log `before` with one entry appended under capacity cap: at
\* most cap entries, the earlier ones in their order, the oldest gone when the
\* log was full
AppendedWithin(before, after, cap) ==
  /\ Len(after) <= cap
  /\ Len(after) = (IF Len(before) = cap THEN cap ELSE Len(before) + 1)
  /\ SubSeq(after, 1, Len(after) - 1)
       = (IF Len(before) = cap THEN Tail(before) ELSE before)

\* C27: each bot's filter history holds at most 100 messages, the formation
\* history at most 50 events and the swarm message log at most 500 messages;
\* an append to a full log evicts the oldest entry and keeps the others in
\* their order.
C27_BoundedLogs ==
  [][/\ \A b \in Bots : Len(History(b)) <= 100
     /\ Len(swarm_monitor.formation_history) <= 50
     /\ Len(swarm_monitor.swarm_messages) <= 500
     /\ \A frame \in FormationFrames : BotFrame("c1", frame) =>
           /\ AppendedWithin(History(frame.bot_id),
                             signal_filter'.message_history[frame.bot_id], 100)
           /\ AppendedWithin(swarm_monitor.formation_history,
                             swarm_monitor'.formation_history, 50)
           /\ AppendedWithin(swarm_monitor.swarm_messages,
                             swarm_monitor'.swarm_messages, 500)]_vars

\* the three logs are full and each has lost its first entries: the oldest
\* entry of each is later than the first message, and the newest is the last
\* message received
C27_Witness ==
  /\ Len(History("A")) = HistoryCap
  /\ Len(swarm_monitor.formation_history) = FormationCap
  /\ Len(swarm_monitor.swarm_messages) = SwarmLogCap
  /\ swarm_monitor.swarm_messages[1].timestamp = 1
  /\ swarm_monitor.formation_history[1].timestamp = SwarmLogCap + 1 - FormationCap
  /\ History("A")[1].timestamp = SwarmLogCap + 1 - HistoryCap
  /\ Last(swarm_monitor.swarm_messages).timestamp = SwarmLogCap


\* C28: a message that passes the rate-limit and the duplicate check is
\* dropped by the priority gate if and only if its priority is below
\* priority_threshold and the recent count of the bot (the entries of its
\* history less than a second old, the message among them) exceeds 5; a
\* message of a priority at or above the threshold is never dropped by the
\* gate.
C28_PriorityGate ==
  [][\A b \in Bots : FilterPassed(b) =>
       LET recentCount ==
             Cardinality({i \in 1..Len(signal_filter'.message_history[b]) :
                            now - signal_filter'.message_history[b][i].timestamp < 1})
       IN /\ audit'.verdict \notin {"rate", "duplicate"} =>
               /\ Decided(b).filtered <=>
                    (Decided(b).priority < Rules.priority_threshold /\ recentCount > 5)
               /\ Decided(b).filtered <=> audit'.verdict = "priority"
          /\ Decided(b).priority >= Rules.priority_threshold
               => audit'.verdict # "priority"]_vars

\* in one second the bot sent seven messages that passed the first two checks:
\* a low-priority one among the first five was kept, one past the fifth was
\* dropped by the gate, and the last, of a priority at the threshold, was kept
C28_Witness ==
  /\ Rules.duplicate_window = 0
  /\ Len(History("A")) = 7
  /\ \A i \in 1..7 : History("A")[i].timestamp = now
  /\ \E i \in 1..5 : History("A")[i].priority = 1 /\ ~History("A")[i].filtered
  /\ \E i \in 6..7 : History("A")[i].priority = 1 /\ History("A")[i].filtered
  /\ History("A")[7].priority = Rules.priority_threshold
  /\ ~History("A")[7].filtered


\* C29: task assignment is first-writer-wins per task id: once
\* task_assignments holds a record for a task id, no later message changes
\* its assigner, type, priority, creation time, status or target.
C29_FirstAssignmentKept ==
  [][\A task_id \in DOMAIN swarm_monitor.task_assignments :
       /\ task_id \in DOMAIN swarm_monitor'.task_assignments
       /\ swarm_monitor'.task_assignments[task_id]
            = swarm_monitor.task_assignments[task_id]]_vars

\* task 1 was assigned by bot A at time 0 and again, a second later, by bot B
\* with another type, priority and target; the record is that of bot A
C29_Witness ==
  /\ 1 \in DOMAIN swarm_monitor.task_assignments
  /\ swarm_monitor.task_assignments[1]
       = [assigned_by |-> "A", task_type |-> 1, priority |-> 1, created_time |-> 0,
          status |-> "assigned", target_bot |-> "A"]
  /\ Len(swarm_monitor.swarm_messages) >= 2
  /\ Last(swarm_monitor.swarm_messages).bot_id = "B"
  /\ Last(swarm_monitor.swarm_messages).timestamp > 0
  /\ Last(swarm_monitor.swarm_messages).payload.taskId = 1
  /\ Last(swarm_monitor.swarm_messages).payload.taskType = 2
  /\ Last(swarm_monitor.swarm_messages).payload.taskPriority = 3
  /\ Last(swarm_monitor.swarm_messages).payload.targetBot = "B"


\* C30: a swarm frame with a messageType that is not recognized is answered
\* with the generic unknown_message analysis and changes nothing of the swarm
\* monitor: leader, election flag, tasks, formations, zones, peer
\* relationships and the swarm message log are as before.
C30_UnknownCodeMutatesNothing ==
  [][\A c \in Conns, frame \in UnknownFrames : BotFrame(c, frame) =>
       /\ Decided(frame.bot_id).data.swarm_analysis.analysis = "unknown_message"
       /\ swarm_monitor' = swarm_monitor]_vars

\* a frame of an unknown code was answered with the unknown_message analysis
\* and is the last entry of the swarm message log; the rest of the monitor is
\* as it was at the start
C30_UnknownMessageLogged ==
  /\ Len(swarm_monitor.swarm_messages) = 1
  /\ swarm_monitor.swarm_messages[1].type = MSG_UNKNOWN
  /\ swarm_monitor = [NewSwarmMonitor EXCEPT
                        !.swarm_messages = swarm_monitor.swarm_messages]
  /\ \E b \in Bots :
        /\ Len(History(b)) = 1
        /\ History(b)[1].data.swarm_analysis.analysis = "unknown_message"


\* C31: the swarm coherence computed on demand is (activity + formation +
\* task)/3, with activity = min(1, swarm messages of the last 30 s / 20),
\* formation the formation stability and task = min(1, active tasks / 5), also
\* before any discovery message was received.  In sixtieths, for the value a
\* get_swarm_status command that is answered computes.
C31_CoherenceFormula ==
  [][\A o \in Ops : (SendSwarmStatus(o) /\ pc_received'[o].reply = "swarm_status") =>
       LET recent == Cardinality({i \in 1..Len(swarm_monitor.swarm_messages) :
                       now - swarm_monitor.swarm_messages[i].timestamp < 30})
           activity == IF recent >= 20 THEN 20 ELSE recent
           task == IF Len(swarm_monitor.active_tasks) >= 5 THEN 5
                   ELSE Len(swarm_monitor.active_tasks)
       IN _calculate_swarm_coherence(swarm_monitor, now)
            = activity + 2 * StatedStability(swarm_monitor.formation_history)
                + 4 * task]_vars

\* an operator got the swarm status of a hub that no discovery message has
\* reached: the coherence in it is 0.0, with a formation stability of 1.0
C31_CoherenceZeroWithoutPeers ==
  /\ pc_received["o1"].reply = "swarm_status"
  /\ DOMAIN swarm_monitor.peer_relationships = {}
  /\ _calculate_swarm_coherence(swarm_monitor, now) = 0
  /\ _calculate_formation_stability(swarm_monitor.formation_history, now) = 10


\* C32: the rules change only in the one step of a set_filter_rules command,
\* which replaces the thresholds it names, leaves the others and touches no
\* message history; every message is filtered under one rule set, the one in
\* force when it arrives, which is the one the latest command left.
C32_RulesUpdatedAtomically ==
  [][/\ signal_filter'.filter_rules # Rules =>
          \E o \in Ops, new_rules \in RuleUpdates :
             /\ SetFilterRules(o, new_rules)
             /\ \A key \in DOMAIN Rules :
                   signal_filter'.filter_rules[key]
                     = IF new_rules[key] # NoNum THEN new_rules[key] ELSE Rules[key]
             /\ signal_filter'.message_history = signal_filter.message_history
     /\ \A b \in Bots : FilterPassed(b) =>
          LET recentCount ==
                Cardinality({i \in 1..Len(signal_filter'.message_history[b]) :
                               now - signal_filter'.message_history[b][i].timestamp < 1})
          IN /\ signal_filter'.filter_rules = Rules
             /\ Decided(b).filtered <=> audit'.verdict # "keep"
             /\ audit'.verdict = "rate" <=> recentCount >= Rules.rate_limit
             /\ audit'.verdict = "duplicate" =>
                  Rules.duplicate_window > 0 /\ recentCount < Rules.rate_limit
             /\ audit'.verdict = "keep" => Rules.duplicate_window = 0]_vars

\* two messages of a bot arrived in the same second, the first under the
\* default rules (dropped as a duplicate), the second after a command had set
\* duplicate_window to 0 and left the other thresholds (kept)
C32_Witness ==
  /\ Rules = [DefaultRules EXCEPT !.duplicate_window = 0]
  /\ \E b \in Bots :
        /\ Len(History(b)) = 2
        /\ History(b)[1].timestamp = History(b)[2].timestamp
        /\ History(b)[1].filtered
        /\ ~History(b)[2].filtered



\* C33: closing a websocket removes only that websocket's own registration: a
\* bot id that maps to another websocket keeps its mapping and its online flag
\* when an older websocket of the same bot id closes.
C33_CloseRemovesOwnRegistration ==
  [][\A c \in Conns : BotClose(c) =>
       \A b \in DOMAIN bot_clients :
          bot_clients[b] # c =>
            /\ b \in DOMAIN bot_clients'
            /\ bot_clients'[b] = bot_clients[b]
            /\ bot_status'[b].is_online = bot_status[b].is_online]_vars

\* bot b registered on c1 and then on c2, c1 closed: c2 is open and its peer
\* alive, but b has no entry in bot_clients and its record is offline though no
\* sweep flipped it
C33_NewerConnectionUnregistered ==
  \E b \in DOMAIN bot_status :
     /\ conn["c1"].bot_id = b /\ conn["c1"].state = "closed"
     /\ conn["c2"].bot_id = b /\ conn["c2"].state = "recv" /\ conn["c2"].alive
     /\ b \notin DOMAIN bot_clients
     /\ ~bot_status[b].is_online
     /\ audit.flips[b] = 0



\* C34: when the trigger completes and the last message of the swarm log is an
\* election bid that arrived after the trigger began and whose sender is the
\* leader, that bot is still the leader after the trigger's update.
C34_TriggerKeepsLaterResult ==
  [][(/\ TriggerResume
      /\ swarm_monitor'.leadership_election_active
      /\ pc_received'["o1"].reply = "response"
      /\ election'.state = "idle"
      /\ Len(swarm_monitor.swarm_messages) > audit.trigger_log
      /\ swarm_monitor.leader_bot # NoVal
      /\ Last(swarm_monitor.swarm_messages).type = MSG_LEADER_ELECTION
      /\ Last(swarm_monitor.swarm_messages).bot_id = swarm_monitor.leader_bot)
       => swarm_monitor'.leader_bot = swarm_monitor.leader_bot]_vars

\* the trigger has completed and replied; the last message of the swarm log, a
\* bid with generation and fitnessScore, arrived after the trigger began, and
\* the hub has no leader
C34_LaterResultLost ==
  /\ election.state = "idle"
  /\ pc_received["o1"].reply = "response"
  /\ Len(swarm_monitor.swarm_messages) > audit.trigger_log
  /\ Last(swarm_monitor.swarm_messages).type = MSG_LEADER_ELECTION
  /\ Last(swarm_monitor.swarm_messages).payload.generation # NoNum
  /\ swarm_monitor.leader_bot = NoVal
  /\ swarm_monitor.leadership_election_active



\* C35: an election that is active and has a leader eventually is not active
\* any more.
C35_ElectionConcludes ==
  (swarm_monitor.leadership_election_active /\ swarm_monitor.leader_bot # NoVal)
    ~> ~swarm_monitor.leadership_election_active

\* the election is active with a leader, nothing is in progress and no
\* further election message will arrive
C35_ElectionStaysActive ==
  /\ swarm_monitor.leadership_election_active
  /\ swarm_monitor.leader_bot # NoVal
  /\ election.state = "idle"
  /\ budget.frames = MaxTriggerFrames
  /\ budget.cmds = MaxOpCmds



\* the handling of a frame on websocket c completes in this step without an
\* exception: at `continue`, or after forward_to_pc has returned
FrameCompleted(c) ==
  /\ conn'[c].state = "recv"
  /\ ~FrameFailed(c)
  /\ \/ conn[c].state = "recv" /\ \E b \in Bots : FilterPassed(b)
     \/ ForwardResume(c)

\* C36: messages_filtered + messages_forwarded never exceeds
\* messages_processed; a step that completes the handling of a bot frame
\* without an exception adds 1 to exactly one of messages_filtered and
\* messages_forwarded, and no other step changes either of them.
C36_CounterConservation ==
  [][/\ stats.messages_filtered + stats.messages_forwarded <= stats.messages_processed
     /\ stats'.messages_filtered + stats'.messages_forwarded <= stats'.messages_processed
     /\ IF \E c \in Conns : FrameCompleted(c)
        THEN \/ /\ stats'.messages_filtered = stats.messages_filtered + 1
                /\ stats'.messages_forwarded = stats.messages_forwarded
             \/ /\ stats'.messages_filtered = stats.messages_filtered
                /\ stats'.messages_forwarded = stats.messages_forwarded + 1
        ELSE /\ stats'.messages_filtered = stats.messages_filtered
             /\ stats'.messages_forwarded = stats.messages_forwarded]_vars

\* three frames were received: one was dropped by the filter, one was
\* forwarded, and the handling of one ended in an exception; an operator is in
\* the pool
C36_Witness ==
  /\ conn["c1"].state = "recv"
  /\ budget.frames = 3
  /\ stats.messages_filtered = 1
  /\ stats.messages_forwarded = 1
  /\ stats.messages_processed = 2
  /\ bot_status["A"].error_count = 1
  /\ pc_clients # {}



C38_EveryFrameRefreshes ==
  [][\A c \in Conns, frame \in RecoverFrames : BotFrame(c, frame) =>
       /\ bot_status'[frame.bot_id].last_seen = now
       /\ bot_status'[frame.bot_id].message_count =
            (IF conn[c].bot_id = NoVal THEN 0
             ELSE bot_status[frame.bot_id].message_count) + 1]_vars

\* bot A, connected, has sent a frame at registration and one every
\* KeepAliveGap seconds since; the second sweep after the last one has set
\* its record offline
C38_ActiveBotFlippedOffline ==
  /\ conn["c1"].state = "recv" /\ conn["c1"].alive /\ conn["c1"].bot_id = "A"
  /\ Len(History("A")) = 2
  /\ History("A")[1].timestamp = 0
  /\ History("A")[2].timestamp = KeepAliveGap
  /\ now = 2 * KeepAliveGap
  /\ audit.flips["A"] = 1
  /\ ~bot_status["A"].is_online
  /\ bot_status["A"].last_seen = 0



\* C39: the task ids of active_tasks are the keys of task_assignments, and the
\* last element of active_tasks is the entry of the latest task-assignment
\* message of the swarm log.
C39_TaskBookkeepingConsistent ==
  /\ {swarm_monitor.active_tasks[i].id : i \in 1..Len(swarm_monitor.active_tasks)}
       = DOMAIN swarm_monitor.task_assignments
  /\ TaskMessages # {} =>
       LET latest == swarm_monitor.swarm_messages[
                       CHOOSE k \in TaskMessages : \A i \in TaskMessages : i <= k]
       IN Last(swarm_monitor.active_tasks)
            = [id |-> Get(latest.payload.taskId, 0),
               type |-> Field(latest.payload, "taskType", 0),
               priority |-> Get(latest.payload.taskPriority, 1),
               assigned_by |-> latest.bot_id,
               status |-> "active"]

\* task 0, then task 1, then task 0 again were assigned: both ids have a
\* record, and the entry of task 0 has moved behind that of task 1
C39_Witness ==
  /\ Len(swarm_monitor.swarm_messages) = 3
  /\ TaskMessages = {1, 2, 3}
  /\ DOMAIN swarm_monitor.task_assignments = {0, 1}
  /\ Len(swarm_monitor.active_tasks) = 2
  /\ swarm_monitor.active_tasks[1].id = 1
  /\ swarm_monitor.active_tasks[2].id = 0
  /\ swarm_monitor.task_assignments[0].assigned_by # swarm_monitor.active_tasks[2].assigned_by

====
